---- MODULE Spec2Model ----
(***************************************************************************)
(* Verification model of reddit-explorer.                                  *)
(*                                                                         *)
(* The module holds several specifications over one set of variables:      *)
(*   SpecStore    the SQLite store and the explorer tree under the         *)
(*                user-facing operations of RedditExplorer / PostWidget    *)
(*                and the link importer;                                   *)
(*   SpecCategories  the store under the category operations alone;        *)
(*   SpecContent  the store under save, download and analyze;              *)
(*   SpecSubreddits  the store under the subreddit operations, main() and  *)
(*                the importer;                                            *)
(*   SpecListing  RedditService.fetch_all_subreddit_posts and              *)
(*                RedditExplorer._load_subreddit_posts over a listing;     *)
(*   SpecImport   LinkImporter.import_links with retry_with_backoff, one   *)
(*                call of the wrapped operation per step;                  *)
(*   SpecCategorize  AIService.categorize_post, one completion per step,   *)
(*                texts being sequences of tokens;                         *)
(*   SpecBullets  AIService.generate_bullet_points, one completion per     *)
(*                step, a completion being the matches its regex finds;    *)
(*   SpecParse    RedditService.fetch_post_details followed by             *)
(*                LinkImporter.extract_post_info_from_content;             *)
(*   SpecCancel   RedditExplorer._auto_categorize_posts, one post per      *)
(*                step, with its Cancel button, and the importer;          *)
(*   SpecNav      the category view with the browser's Next, Done and      *)
(*                "Show in categories" controls.                           *)
(* Each specification leaves the variables of the others at their idle     *)
(* values.                                                                 *)
(***************************************************************************)
EXTENDS Integers, Sequences, FiniteSets, TLC

VARIABLES
    subreddits,     \* table subreddits: sequence of rows [id, name], rowid order
    saved_posts,    \* table saved_posts: sequence of rows, rowid order
    categories,     \* table categories: sequence of rows [name, description]
    subTree,        \* children of the "Subreddits" tree root: sequence of names
    catTree,        \* children of the "Categories" tree root: sequence of
                    \* [name, count], the item text being "<name> (<count>)"
    uncaught,       \* the exception that escaped the last handler, or "none"
    last_call       \* history: the last handler run, and whether it swallowed
                    \* an sqlite3.IntegrityError

VARIABLES
    listing,        \* the subreddit's /new listing at Reddit: post ids, newest
                    \* first
    pc,             \* position of the running call
    max_posts,      \* fetch_all_subreddit_posts: the max_posts argument
    all_posts,      \* fetch_all_subreddit_posts: all_posts
    after,          \* fetch_all_subreddit_posts: <<>> for None, <<id>> for
                    \* the fullname "t3_<id>" of the last post fetched
    fetched,        \* the list fetch_all_subreddit_posts returned
    request_failed, \* history: a page fetch hit requests.RequestException
    view            \* subreddit_view layout: sequence of [id, is_saved], top
                    \* to bottom

VARIABLES
    links,          \* import_links: links, the lines it loops over
    max_links,      \* import_links: the max_links argument, <<>> for None
                    \* and <<n>> for the integer n
    link_i,         \* import_links: total_processed, the line being handled
    errors,         \* import_links: errors
    total_imported, \* import_links: total_imported
    ipc,            \* position of the importer
    attempt,        \* retry_with_backoff: the loop index of the next turn
    delay,          \* retry_with_backoff: delay
    last_result,    \* retry_with_backoff: last_result
    retry_result,   \* import_links: post_content, what retry_with_backoff
                    \* returned
    calls,          \* history: calls of the wrapped operation in this retry
    sentinels,      \* history: how many of them returned the error sentinel
    sleeps,         \* history: the time.sleep calls of this retry, as
                    \* [attempt, delay], attempt counted from 1
    runs,           \* history: the import_links calls so far, as [file,
                    \* posts], posts being saved_posts when the call began
    line_start      \* history: subreddits, saved_posts, errors and
                    \* total_imported when the turn of the current line began

VARIABLES
    cpc,            \* position of the categorize_post call
    category_map,   \* categorize_post: categories, name -> description
    summary,        \* categorize_post: summary
    response,       \* categorize_post: response
    returned,       \* what categorize_post returned: <<category, summary>>
    suggestions,    \* suggested_categories.txt: [exists, lines]
    suggest_mode    \* AIService.suggest_mode

VARIABLES
    bpc,                \* position of the generate_bullet_points call
    summaries,          \* generate_bullet_points: summaries, as their post ids
    batch_start,        \* generate_bullet_points: batch_start
    all_bullet_points,  \* generate_bullet_points: all_bullet_points before
                        \* the selection, as [point, post_id]
    selection,          \* _select_most_valuable_points: the <selected>
                        \* matches of its completion
    bullets,            \* the list generate_bullet_points returned
    extractions         \* history: the completions of
                        \* _process_bullet_point_batch so far, as [batch,
                        \* matches]

VARIABLES
    tz,             \* the local time zone of the process
    dpc,            \* position of the fetch-and-parse run
    post_data,      \* fetch_post_details: <<post_data>>, <<>> before a fetch
    comments_data,  \* fetch_post_details: comments_data
    markdown,       \* what fetch_post_details returned, a sequence of tokens
    post_info       \* what extract_post_info_from_content returned:
                    \* <<PostInfo>>, <<>> for None

VARIABLES
    acpc,           \* position of the _auto_categorize_posts call
    ac_category,    \* _auto_categorize_posts: category_name
    ac_rows,        \* _auto_categorize_posts: the rows of the loop that is
                    \* running (undownloaded_posts, then posts), as reddit ids
    ac_i,           \* _auto_categorize_posts: the turns of that loop so far
    canceled,       \* wasCanceled() of the progress dialog that is up
    ac_calls,       \* history: the fetch_post_details and categorize_post
                    \* calls of the run, as [op, reddit_id]
    cancel_requested    \* history: the operations during whose run the user
                        \* asked to cancel

VARIABLES
    current_category_name,      \* RedditExplorer._current_category_name
    current_category_posts,     \* RedditExplorer.current_category_posts, as
                                \* the ids of its posts
    current_post_index,         \* RedditExplorer.current_post_index
    browser_shown,              \* the browser and the Next / Done buttons
                                \* are shown, subreddit_view is hidden
    browser_url,                \* what "/comments/([^/]+)/" finds in
                                \* browser.url(): <<id>>, <<>> for no match
    browser_category_checkbox,  \* isChecked() of the browser's checkbox
    next_btn_enabled            \* next_btn.isEnabled()

storeVars == <<subreddits, saved_posts, categories, subTree, catTree>>

listVars == <<listing, pc, max_posts, all_posts, after, fetched, request_failed,
              view>>

importVars == <<links, max_links, link_i, errors, total_imported, ipc, attempt,
                delay, last_result, retry_result, calls, sentinels, sleeps,
                runs, line_start>>

catVars == <<cpc, category_map, summary, response, returned,
             suggestions, suggest_mode>>

bulletVars == <<bpc, summaries, batch_start, all_bullet_points, selection,
                bullets, extractions>>

parseVars == <<tz, dpc, post_data, comments_data, markdown, post_info>>

navVars == <<current_category_name, current_category_posts,
             current_post_index, browser_shown, browser_url,
             browser_category_checkbox, next_btn_enabled>>

batchVars == <<acpc, ac_category, ac_rows, ac_i, canceled, ac_calls,
               cancel_requested>>

\* What the steps of _auto_categorize_posts leave alone, the store apart.
notBatch == <<listVars, importVars, catVars, bulletVars, parseVars, navVars>>

\* What the navigation of a category view leaves alone, the store apart.
notNav == <<listVars, importVars, catVars, bulletVars, parseVars, batchVars>>

\* What the handlers of the store leave alone.
notStore == <<listVars, importVars, catVars, bulletVars, parseVars,
              batchVars, navVars>>

\* What the subreddit load leaves alone.
notListing == <<storeVars, importVars, catVars, bulletVars, parseVars,
                batchVars, navVars>>

\* What the importer leaves alone.
notImport == <<categories, subTree, catTree, uncaught, listVars, catVars,
               bulletVars, parseVars, batchVars, navVars>>

\* What categorize_post leaves alone.
notCategorize == <<storeVars, last_call, listVars, importVars, bulletVars,
                   parseVars, batchVars, navVars>>

\* What generate_bullet_points leaves alone.
notBullets == <<storeVars, last_call, listVars, importVars, catVars,
                parseVars, batchVars, navVars>>

\* What fetch_post_details and extract_post_info_from_content leave alone.
notParse == <<storeVars, last_call, listVars, importVars, catVars,
              bulletVars, batchVars, navVars>>

vars == <<subreddits, saved_posts, categories, subTree, catTree, uncaught,
          last_call, listing, pc, max_posts, all_posts, after, fetched,
          request_failed, view, links, max_links, link_i, errors,
          total_imported, ipc,
          attempt, delay, last_result, retry_result, calls, sentinels, sleeps,
          runs, line_start, cpc, category_map, summary, response, returned,
          suggestions, suggest_mode,
          bpc, summaries, batch_start, all_bullet_points, selection, bullets,
          extractions,
          tz, dpc, post_data, comments_data, markdown, post_info, acpc,
          ac_category, ac_rows, ac_i, canceled, ac_calls, cancel_requested,
          current_category_name, current_category_posts, current_post_index,
          browser_shown, browser_url, browser_category_checkbox,
          next_btn_enabled>>

Call(op, integrity_error) == [op |-> op, integrity_error |-> integrity_error]

----------------------------------------------------------------------------
(* Values *)

NULL == "NULL"

DEFAULT_CATEGORY == "Uncategorized"

\* Category names a user can type (already stripped); none contains " (".
CatNames == {"Uncategorized", "AI", "misc"}

\* str.lower() on the names of the model.
Lower(s) ==
    CASE s = "LocalLLaMA" -> "localllama"
      [] s = "Singularity" -> "singularity"
      [] s = "Uncategorized" -> "uncategorized"
      [] s = "AI" -> "ai"
      [] OTHER -> s

\* Position of Lower(s) in the order of Python's str "<".
LowerRank(s) ==
    CASE Lower(s) = "ai" -> 1
      [] Lower(s) = "localllama" -> 2
      [] Lower(s) = "misc" -> 3
      [] Lower(s) = "rust" -> 4
      [] Lower(s) = "singularity" -> 5
      [] Lower(s) = "uncategorized" -> 6
      [] OTHER -> 7

\* Position of s in SQLite's BINARY collation (ORDER BY name).
BinaryRank(s) ==
    CASE s = "AI" -> 1
      [] s = "LocalLLaMA" -> 2
      [] s = "Singularity" -> 3
      [] s = "Uncategorized" -> 4
      [] s = "localllama" -> 5
      [] s = "misc" -> 6
      [] s = "rust" -> 7
      [] OTHER -> 8

\* The transient RedditPost objects the listing delivers: id and subreddit.
RedditPosts == {[id |-> "a", subreddit |-> "LocalLLaMA"],
                [id |-> "b", subreddit |-> "rust"]}

PostIds == {p.id : p \in RedditPosts}

\* What RedditService.fetch_post_details can do when called: return the
\* markdown document, return the error sentinel string (RequestException),
\* or raise another exception (a response that does not decode).
FetchOutcomes == {"doc", "err", "raise"}

DOC == "doc"
ERR == "Error fetching post details"

\* CURRENT_TIMESTAMP, whenever it is taken.
NOW == "CURRENT_TIMESTAMP"

\* What the user can leave in the description dialog: nothing, or a text.
Descriptions == {"", "about"}

----------------------------------------------------------------------------
(* Sequence helpers *)

Range(s) == {s[i] : i \in DOMAIN s}

RECURSIVE SeqSum(_)
SeqSum(s) == IF s = <<>> THEN 0 ELSE Head(s) + SeqSum(Tail(s))

\* list.insert(pos, x) with 0-based pos
InsertAt(s, pos, x) == SubSeq(s, 1, pos) \o <<x>> \o SubSeq(s, pos + 1, Len(s))

RemoveAt(s, i) == SubSeq(s, 1, i - 1) \o SubSeq(s, i + 1, Len(s))

\* The finite set S of names as a sequence in BINARY collation order.
RECURSIVE SortBinary(_)
SortBinary(S) ==
    IF S = {} THEN <<>>
    ELSE LET m == CHOOSE x \in S : \A y \in S : BinaryRank(x) <= BinaryRank(y)
         IN <<m>> \o SortBinary(S \ {m})

\* The subsequence of s at the positions in I, in order.
RECURSIVE Pick(_, _, _)
Pick(s, I, i) ==
    IF i > Len(s) THEN <<>>
    ELSE (IF i \in I THEN <<s[i]>> ELSE <<>>) \o Pick(s, I, i + 1)

----------------------------------------------------------------------------
(* The store: queries and statements *)

\* max(rowid) + 1 of an INTEGER PRIMARY KEY table
NextRowId(table) ==
    IF table = <<>> THEN 1
    ELSE 1 + (CHOOSE m \in {r.id : r \in Range(table)} :
                  \A r \in Range(table) : r.id <= m)

\* SELECT id FROM subreddits WHERE LOWER(name) = LOWER(?) ... fetchone()
\* the matching rows' positions, the first being the one fetched
SubredditMatches(subs, name) ==
    {i \in DOMAIN subs : Lower(subs[i].name) = Lower(name)}

FirstOf(I) == CHOOSE i \in I : \A j \in I : i <= j

CategoryNames(cats) == {c.name : c \in Range(cats)}

\* Mutant: the reddit_id column without its UNIQUE constraint.
RedditIdTaken_NoConstraint(posts, reddit_id) == FALSE

\* UNIQUE(reddit_id) of saved_posts: an INSERT of this reddit_id raises
\* sqlite3.IntegrityError
RedditIdTaken(posts, reddit_id) ==
    \E i \in DOMAIN posts : posts[i].reddit_id = reddit_id

\* Mutant: the importer without its check.
PostExists_Never(posts, reddit_id) == FALSE

\* SELECT 1 FROM saved_posts WHERE reddit_id = ? ... fetchone()
PostExists(posts, reddit_id) ==
    \E i \in DOMAIN posts : posts[i].reddit_id = reddit_id

\* UNIQUE(name) of subreddits: the column has the BINARY collation, so names
\* that differ in case are different names.
SubredditNameTaken(subs, name) == \E r \in Range(subs) : r.name = name

\* UNIQUE(name) of categories
CategoryNameTaken(cats, name) == name \in CategoryNames(cats)

\* COUNT(sp.id) of the LEFT JOIN in refresh_category_counts / _load_subreddits
CategoryCount(posts, name) ==
    Cardinality({i \in DOMAIN posts :
                    posts[i].category = name /\ posts[i].show_in_categories})

\* Mutant: the categories row is changed but the posts are left behind.
MovePosts_Forgotten(posts, old, new) == posts

\* UPDATE saved_posts SET category = new WHERE category = old
MovePosts(posts, old, new) ==
    [i \in DOMAIN posts |->
        IF posts[i].category = old THEN [posts[i] EXCEPT !.category = new]
        ELSE posts[i]]

\* UPDATE saved_posts SET show_in_categories = ? WHERE reddit_id = ?
SetVisibility(posts, reddit_id, show) ==
    [i \in DOMAIN posts |->
        IF posts[i].reddit_id = reddit_id
        THEN [posts[i] EXCEPT !.show_in_categories = show]
        ELSE posts[i]]

\* Mutant: the insert writes a summary.
NewSavedPost_Summarized(reddit_id, subreddit_id, content) ==
    [reddit_id |-> reddit_id, subreddit_id |-> subreddit_id,
     category |-> "Uncategorized", show_in_categories |-> TRUE,
     content |-> content, content_date |-> NOW, summary |-> "summary"]

\* The row both save_post and import_links insert: category forced to
\* 'Uncategorized', show_in_categories 1, content as given, content_date
\* CURRENT_TIMESTAMP, summary left NULL.
NewSavedPost(reddit_id, subreddit_id, content) ==
    [reddit_id |-> reddit_id, subreddit_id |-> subreddit_id,
     category |-> "Uncategorized", show_in_categories |-> TRUE,
     content |-> content, content_date |-> NOW, summary |-> NULL]

----------------------------------------------------------------------------
(* The explorer tree *)

\* RedditExplorer.refresh_category_counts: every item of the Categories
\* root gets the count of its name, 0 for a name without a categories row.
RefreshCategoryCounts(tree, cats, posts) ==
    [i \in DOMAIN tree |->
        [name |-> tree[i].name,
         count |-> IF tree[i].name \in CategoryNames(cats)
                   THEN CategoryCount(posts, tree[i].name) ELSE 0]]

\* The alphabetical insert position computed in _add_category and
\* _rename_category: insert_pos = i + 1 for the items passed before the break.
RECURSIVE InsertPos(_, _, _)
InsertPos(tree, name, i) ==
    IF i > Len(tree) THEN Len(tree)
    ELSE IF LowerRank(name) < LowerRank(tree[i].name) THEN i - 1
    ELSE InsertPos(tree, name, i + 1)

\* The alphabetical insert position computed in _add_subreddit_with_dialog
\* and _rename_subreddit over the items of the Subreddits root.
RECURSIVE SubredditInsertPos(_, _, _)
SubredditInsertPos(tree, name, i) ==
    IF i > Len(tree) THEN Len(tree)
    ELSE IF LowerRank(name) < LowerRank(tree[i]) THEN i - 1
    ELSE SubredditInsertPos(tree, name, i + 1)

\* RedditExplorer._load_subreddits: the Categories children built from the
\* store, ORDER BY c.name
LoadCategoryTree(cats, posts) ==
    LET names == SortBinary(CategoryNames(cats))
    IN [i \in DOMAIN names |->
           [name |-> names[i], count |-> CategoryCount(posts, names[i])]]

LoadSubredditTree(subs) == SortBinary({r.name : r \in Range(subs)})

----------------------------------------------------------------------------
(* RedditExplorer and PostWidget handlers *)

\* RedditExplorer.save_post; outcome is what fetch_post_details does.
SavePost(p, outcome) ==
    LET found == SubredditMatches(subreddits, p.subreddit)
        inTree == {i \in DOMAIN subTree : Lower(subTree[i]) = Lower(p.subreddit)}
        subreddit_name == IF inTree # {} THEN subTree[FirstOf(inTree)]
                          ELSE p.subreddit
        subreddit_id == IF found = {} THEN NextRowId(subreddits)
                        ELSE subreddits[FirstOf(found)].id
        post_content == CASE outcome = "doc" -> DOC
                          [] outcome = "err" -> ERR
                          [] OTHER -> NULL
        inserted == Append(saved_posts,
                           NewSavedPost(p.id, subreddit_id, post_content))
    IN /\ subreddits' = IF found = {}
                        THEN Append(subreddits,
                                    [id |-> subreddit_id, name |-> subreddit_name])
                        ELSE subreddits
       /\ subTree' = IF found = {} /\ inTree = {}
                     THEN Append(subTree, subreddit_name) ELSE subTree
       /\ IF RedditIdTaken(saved_posts, p.id)
          THEN \* sqlite3.IntegrityError: "Post already saved", pass
               UNCHANGED <<saved_posts, catTree>>
          ELSE /\ saved_posts' = inserted
               /\ catTree' = RefreshCategoryCounts(catTree, categories, inserted)
       /\ uncaught' = "none"
       /\ UNCHANGED notStore
       /\ last_call' = Call("save_post", RedditIdTaken(saved_posts, p.id))
       /\ UNCHANGED categories

\* RedditExplorer.unsave_post, called when the "Add post" checkbox of a
\* subreddit-view widget goes from checked to unchecked: the post was saved
\* when the widget was built or by checking the box.
UnsavePost(p) ==
    LET kept == SelectSeq(saved_posts, LAMBDA r : r.reddit_id # p.id)
    IN /\ RedditIdTaken(saved_posts, p.id)
       /\ saved_posts' = kept
       /\ catTree' = RefreshCategoryCounts(catTree, categories, kept)
       /\ uncaught' = "none"
       /\ UNCHANGED notStore
       /\ last_call' = Call("unsave_post", FALSE)
       /\ UNCHANGED <<subreddits, categories, subTree>>

\* RedditExplorer.update_post_category_visibility
UpdatePostCategoryVisibility(posts, post_id, show) ==
    SetVisibility(posts, post_id, show)

\* PostWidget.on_category_checkbox_changed; show is state == 2.  The
\* checkbox is laid out in category-view widgets only, which load_category_posts
\* builds from saved_posts rows with is_saved = True.
OnCategoryCheckboxChanged(post_id, show) ==
    /\ RedditIdTaken(saved_posts, post_id)
    /\ saved_posts' = UpdatePostCategoryVisibility(saved_posts, post_id, show)
    /\ uncaught' = "none"
    /\ UNCHANGED notStore
    /\ last_call' = Call("on_category_checkbox_changed", FALSE)
    /\ UNCHANGED <<subreddits, categories, subTree, catTree>>

\* RedditExplorer._handle_browser_category_changed; post_id is the id found
\* in the browser's URL.
HandleBrowserCategoryChanged(post_id, show) ==
    LET posts == UpdatePostCategoryVisibility(saved_posts, post_id, show)
    IN /\ saved_posts' = posts
       /\ catTree' = RefreshCategoryCounts(catTree, categories, posts)
       /\ uncaught' = "none"
       /\ UNCHANGED notStore
       /\ last_call' = Call("_handle_browser_category_changed", FALSE)
       /\ UNCHANGED <<subreddits, categories, subTree>>

\* PostWidget._show_category_menu of a category-view widget: the menu lists
\* the categories rows.
SetCategory(post_id, new_category) ==
    /\ RedditIdTaken(saved_posts, post_id)
    /\ new_category \in CategoryNames(categories)
    /\ LET posts == [i \in DOMAIN saved_posts |->
                        IF saved_posts[i].reddit_id = post_id
                        THEN [saved_posts[i] EXCEPT !.category = new_category]
                        ELSE saved_posts[i]]
       IN /\ saved_posts' = posts
          /\ catTree' = RefreshCategoryCounts(catTree, categories, posts)
    /\ uncaught' = "none"
    /\ UNCHANGED notStore
    /\ last_call' = Call("_show_category_menu", FALSE)
    /\ UNCHANGED <<subreddits, categories, subTree>>

\* RedditExplorer._add_category; name is the stripped, non-empty input.
AddCategory(name) ==
    /\ IF CategoryNameTaken(categories, name)
       THEN \* sqlite3.IntegrityError: "Category already exists", pass
            UNCHANGED <<categories, catTree>>
       ELSE /\ categories' = Append(categories,
                                    [name |-> name, description |-> NULL])
            /\ catTree' = InsertAt(catTree, InsertPos(catTree, name, 1),
                                   [name |-> name, count |-> 0])
    /\ uncaught' = "none"
    /\ UNCHANGED notStore
    /\ last_call' = Call("_add_category", CategoryNameTaken(categories, name))
    /\ UNCHANGED <<subreddits, saved_posts, subTree>>

\* Mutant: the menu without its guard.
MenuOffersChange_Always(item_name) == TRUE

\* The guard of _show_context_menu: Rename, Remove and Uncategorize are
\* offered on a Categories item whose name is not "Uncategorized".
MenuOffersChange(item_name) == item_name # "Uncategorized"

\* RedditExplorer._rename_category on tree item k.
RenameCategory(k, new_name) ==
    LET old_name == catTree[k].name
        rest == RemoveAt(catTree, k)
    IN /\ MenuOffersChange(old_name)
       /\ new_name # old_name
       /\ IF CategoryNameTaken(categories, new_name)
          THEN \* sqlite3.IntegrityError: "Category name already exists", pass
               UNCHANGED <<categories, saved_posts, catTree>>
          ELSE /\ categories' = [i \in DOMAIN categories |->
                                    IF categories[i].name = old_name
                                    THEN [categories[i] EXCEPT !.name = new_name]
                                    ELSE categories[i]]
               /\ saved_posts' = MovePosts(saved_posts, old_name, new_name)
               /\ catTree' = InsertAt(rest, InsertPos(rest, new_name, 1),
                                      [name |-> new_name,
                                       count |-> catTree[k].count])
       /\ uncaught' = "none"
       /\ UNCHANGED notStore
       /\ last_call' = Call("_rename_category",
                         CategoryNameTaken(categories, new_name))
       /\ UNCHANGED <<subreddits, subTree>>

\* Mutant: the posts of the category go with it.
RemoveCategory_DeletePosts(k) ==
    LET category_name == catTree[k].name
        posts == SelectSeq(saved_posts, LAMBDA r : r.category # category_name)
        cats == SelectSeq(categories, LAMBDA c : c.name # category_name)
    IN /\ MenuOffersChange(category_name)
       /\ saved_posts' = posts
       /\ categories' = cats
       /\ catTree' = RefreshCategoryCounts(RemoveAt(catTree, k), cats, posts)
       /\ uncaught' = "none"
       /\ UNCHANGED notStore
       /\ last_call' = Call("_remove_category", FALSE)
       /\ UNCHANGED <<subreddits, subTree>>

\* RedditExplorer._remove_category on tree item k, confirmed with Yes.
RemoveCategory(k) ==
    LET category_name == catTree[k].name
        posts == MovePosts(saved_posts, category_name, "Uncategorized")
        cats == SelectSeq(categories, LAMBDA c : c.name # category_name)
    IN /\ MenuOffersChange(category_name)
       /\ saved_posts' = posts
       /\ categories' = cats
       /\ catTree' = RefreshCategoryCounts(RemoveAt(catTree, k), cats, posts)
       /\ uncaught' = "none"
       /\ UNCHANGED notStore
       /\ last_call' = Call("_remove_category", FALSE)
       /\ UNCHANGED <<subreddits, subTree>>

\* RedditExplorer._uncategorize_posts on tree item k, confirmed with Yes.
UncategorizePosts(k) ==
    LET category_name == catTree[k].name
        posts == MovePosts(saved_posts, category_name, "Uncategorized")
    IN /\ MenuOffersChange(category_name)
       /\ saved_posts' = posts
       /\ catTree' = RefreshCategoryCounts(catTree, categories, posts)
       /\ uncaught' = "none"
       /\ UNCHANGED notStore
       /\ last_call' = Call("_uncategorize_posts", FALSE)
       /\ UNCHANGED <<subreddits, categories, subTree>>

\* RedditExplorer._set_category_description on tree item k, the dialog
\* closed with OK: desc.strip() if desc else None
SetCategoryDescription(k, desc) ==
    LET category_name == catTree[k].name
    IN /\ categories' = [i \in DOMAIN categories |->
                            IF categories[i].name = category_name
                            THEN [categories[i] EXCEPT
                                     !.description =
                                        IF desc = "" THEN NULL ELSE desc]
                            ELSE categories[i]]
       /\ uncaught' = "none"
       /\ UNCHANGED notStore
       /\ last_call' = Call("_set_category_description", FALSE)
       /\ UNCHANGED <<subreddits, saved_posts, subTree, catTree>>

\* RedditExplorer.add_subreddit
AddSubreddit(subs, tree, name) ==
    IF SubredditNameTaken(subs, name)
    THEN \* sqlite3.IntegrityError: "Subreddit already exists", pass
         [subs |-> subs, tree |-> tree]
    ELSE [subs |-> Append(subs, [id |-> NextRowId(subs), name |-> name]),
          tree |-> Append(tree, name)]

\* main(): RedditExplorer(), whose _load_subreddits builds the trees from the
\* store, and the two add_subreddit calls.
Main ==
    LET first == AddSubreddit(subreddits, LoadSubredditTree(subreddits),
                              "LocalLLaMA")
        second == AddSubreddit(first.subs, first.tree, "Singularity")
    IN /\ subreddits' = second.subs
       /\ subTree' = second.tree
       /\ catTree' = LoadCategoryTree(categories, saved_posts)
       /\ uncaught' = "none"
       /\ UNCHANGED notStore
       /\ last_call' = Call("main", FALSE)
       /\ UNCHANGED <<saved_posts, categories>>

\* RedditExplorer._add_subreddit_with_dialog; name is the input stripped
\* and without its "r/" prefix, and not empty.
AddSubredditWithDialog(name) ==
    /\ IF SubredditNameTaken(subreddits, name)
       THEN \* sqlite3.IntegrityError: "Subreddit already exists", pass
            UNCHANGED <<subreddits, subTree>>
       ELSE /\ subreddits' = Append(subreddits,
                                    [id |-> NextRowId(subreddits),
                                     name |-> name])
            /\ subTree' = InsertAt(subTree,
                                   SubredditInsertPos(subTree, name, 1), name)
    /\ uncaught' = "none"
    /\ UNCHANGED notStore
    /\ last_call' = Call("_add_subreddit_with_dialog",
                         SubredditNameTaken(subreddits, name))
    /\ UNCHANGED <<saved_posts, categories, catTree>>

\* RedditExplorer._rename_subreddit on tree item k.
RenameSubreddit(k, new_name) ==
    LET old_name == subTree[k]
        rest == RemoveAt(subTree, k)
    IN /\ new_name # old_name
       /\ IF SubredditNameTaken(subreddits, new_name)
          THEN \* sqlite3.IntegrityError: "Subreddit name already exists", pass
               UNCHANGED <<subreddits, subTree>>
          ELSE /\ subreddits' = [i \in DOMAIN subreddits |->
                                    IF subreddits[i].name = old_name
                                    THEN [subreddits[i] EXCEPT !.name = new_name]
                                    ELSE subreddits[i]]
               /\ subTree' = InsertAt(rest,
                                      SubredditInsertPos(rest, new_name, 1),
                                      new_name)
       /\ uncaught' = "none"
       /\ UNCHANGED notStore
       /\ last_call' = Call("_rename_subreddit",
                            SubredditNameTaken(subreddits, new_name))
       /\ UNCHANGED <<saved_posts, categories, catTree>>

\* RedditExplorer._remove_subreddit on tree item k: the subreddits row is
\* deleted, the saved_posts rows of the subreddit are not.
RemoveSubreddit(k) ==
    LET subreddit_name == subTree[k]
        same == {i \in DOMAIN subTree : subTree[i] = subreddit_name}
    IN /\ subreddits' = SelectSeq(subreddits,
                                  LAMBDA r : r.name # subreddit_name)
       /\ subTree' = RemoveAt(subTree, FirstOf(same))
       /\ uncaught' = "none"
       /\ UNCHANGED notStore
       /\ last_call' = Call("_remove_subreddit", FALSE)
       /\ UNCHANGED <<saved_posts, categories, catTree>>

\* RedditExplorer.load_category_posts: the positions in saved_posts of the
\* rows the SELECT with its JOIN on subreddits returns.
LoadCategoryPosts(posts, subs, category_name) ==
    {i \in DOMAIN posts :
        /\ posts[i].category = category_name
        /\ posts[i].show_in_categories
        /\ \E r \in Range(subs) : r.id = posts[i].subreddit_id}

\* The fields of the dataclass RedditPost; its generated __init__ raises
\* TypeError for any other keyword.
RedditPostFields ==
    {"id", "title", "url", "subreddit", "created_utc", "num_comments", "selftext"}

RedditPostAccepts(kwargs) == kwargs \subseteq RedditPostFields

\* The keywords _auto_categorize_posts passes to RedditPost(...).
AutoCategorizeKwargs ==
    {"id", "title", "content", "subreddit", "created_utc", "num_comments", "url"}

\* JOIN subreddits s ON sp.subreddit_id = s.id
Joined(posts, subs, i) == \E r \in Range(subs) : r.id = posts[i].subreddit_id

\* UPDATE saved_posts SET content = ?, content_date = CURRENT_TIMESTAMP
\* WHERE reddit_id = ? for the downloaded rows D, got[i] being what
\* fetch_post_details returned for row i
StoreContent(posts, D, got) ==
    [i \in DOMAIN posts |->
        IF \E j \in D : posts[j].reddit_id = posts[i].reddit_id
        THEN [posts[i] EXCEPT
                 !.content =
                    got[CHOOSE j \in D : posts[j].reddit_id = posts[i].reddit_id],
                 !.content_date = NOW]
        ELSE posts[i]]

\* What fetch_post_details comes to for each post of a download: the
\* document, the sentinel, or an exception.
DownloadResults == [PostIds -> {DOC, ERR, "raise"}]

\* The turn of a progress loop before which the user presses Cancel; 0 for
\* never.
CancelTurns == 0..Cardinality(PostIds)

\* The rows the loop of _analyze_category_posts gets through: those before
\* the first turn that is cancelled or whose fetch raises.  rows is the
\* result of the SELECT as positions of posts.
Downloaded(posts, rows, got, cancel) ==
    LET stops == {t \in DOMAIN rows :
                     t = cancel \/ got[posts[rows[t]].reddit_id] = "raise"}
        last == IF stops = {} THEN Len(rows) ELSE FirstOf(stops) - 1
    IN {rows[t] : t \in 1..last}

\* RedditExplorer._analyze_category_posts ("Download posts") on tree item k.
AnalyzeCategoryPosts(k, got, cancel) ==
    LET category_name == catTree[k].name
        posts == Pick([i \in DOMAIN saved_posts |-> i],
                      {i \in DOMAIN saved_posts :
                          /\ saved_posts[i].category = category_name
                          /\ saved_posts[i].content = NULL
                          /\ Joined(saved_posts, subreddits, i)}, 1)
        D == Downloaded(saved_posts, posts, got, cancel)
    IN /\ saved_posts' =
             StoreContent(saved_posts, D,
                          [i \in D |-> got[saved_posts[i].reddit_id]])
       /\ uncaught' = "none"
       /\ UNCHANGED notStore
       /\ last_call' = Call("_analyze_category_posts", FALSE)
       /\ UNCHANGED <<subreddits, categories, subTree, catTree>>

\* The rows a loop over the rows of a SELECT (positions, in rowid order) can
\* have got through when it ends: the first n of them.
LoopPrefixes(rows) == {{i \in rows : i <= n} : n \in {0} \cup rows}

\* RedditExplorer._auto_categorize_posts on tree item k.  The download loop
\* handles the rows D before it ends: all of them, or fewer when the user
\* cancels or fetch_post_details raises (both return).  The categorization
\* loop starts with RedditPost(..., content=...).
AutoCategorizePosts(k) ==
    LET category_name == catTree[k].name
        undownloaded == {i \in DOMAIN saved_posts :
                            /\ saved_posts[i].category = category_name
                            /\ saved_posts[i].content = NULL
                            /\ Joined(saved_posts, subreddits, i)}
    IN \E D \in LoopPrefixes(undownloaded) :
       \E got \in [D -> {DOC, ERR}] :
          LET downloaded == StoreContent(saved_posts, D, got)
              posts == {i \in DOMAIN downloaded :
                           /\ downloaded[i].category = category_name
                           /\ downloaded[i].content # NULL
                           /\ Joined(downloaded, subreddits, i)}
          IN /\ IF D # undownloaded \/ posts = {}
                   \/ ~RedditPostAccepts(AutoCategorizeKwargs)
                THEN \* returned early, or TypeError caught by the handler's
                     \* "except Exception": warning dialog, nothing else
                     /\ saved_posts' = downloaded
                     /\ UNCHANGED catTree
                ELSE \E P \in LoopPrefixes(posts) :
                     \E suggested \in [P -> CategoryNames(categories)
                                              \cup {"Uncategorized"}] :
                        LET updated ==
                              [i \in DOMAIN downloaded |->
                                  IF i \in P
                                  THEN [downloaded[i] EXCEPT
                                           !.category = suggested[i],
                                           !.summary = "summary"]
                                  ELSE downloaded[i]]
                        IN /\ saved_posts' = updated
                           /\ catTree' =
                                 IF P = posts
                                 THEN RefreshCategoryCounts(catTree, categories,
                                                            updated)
                                 ELSE catTree
             /\ uncaught' = "none"
             /\ UNCHANGED notStore
             /\ last_call' = Call("_auto_categorize_posts", FALSE)
             /\ UNCHANGED <<subreddits, categories, subTree>>

----------------------------------------------------------------------------
(* RedditExplorer._auto_categorize_posts, one turn of its loops per step,   *)
(* with the Cancel button of its progress dialogs                           *)

\* SELECT sp.reddit_id ... FROM saved_posts sp JOIN subreddits s
\*   ON sp.subreddit_id = s.id
\*   WHERE sp.category = ? AND sp.content IS [NOT] NULL
\* as the reddit ids of the rows, in rowid order.
CategoryRows(posts, subs, category_name, with_content) ==
    LET at == {i \in DOMAIN posts :
                  /\ posts[i].category = category_name
                  /\ (posts[i].content # NULL) = with_content
                  /\ Joined(posts, subs, i)}
        rows == Pick(posts, at, 1)
    IN [t \in DOMAIN rows |-> rows[t].reddit_id]

\* _auto_categorize_posts on tree item k up to the first turn of a loop:
\* the SELECT of the undownloaded posts and, when there is none, the SELECT
\* of the posts to categorize.
AutoCategorizeStart(k) ==
    LET category_name == catTree[k].name
        undownloaded_posts ==
            CategoryRows(saved_posts, subreddits, category_name, FALSE)
        posts == CategoryRows(saved_posts, subreddits, category_name, TRUE)
    IN /\ acpc \in {"idle", "done"}
       /\ ipc \in {"idle", "done"}
       /\ ac_category' = category_name
       /\ IF undownloaded_posts # <<>>
          THEN acpc' = "download" /\ ac_rows' = undownloaded_posts
          ELSE IF posts # <<>>
          THEN acpc' = "categorize" /\ ac_rows' = posts
          ELSE \* "No posts found to categorize in this category."
               acpc' = "done" /\ ac_rows' = <<>>
       /\ ac_i' = 0
       /\ canceled' = FALSE
       /\ ac_calls' = <<>>
       /\ cancel_requested' = cancel_requested \ {"_auto_categorize_posts"}
       /\ uncaught' = "none"
       /\ last_call' = Call("_auto_categorize_posts", FALSE)
       /\ UNCHANGED storeVars
       /\ UNCHANGED notBatch

\* The user presses Cancel on the progress dialog that is up.
PressCancel ==
    /\ acpc \in {"download", "categorize"}
    /\ ~canceled
    /\ canceled' = TRUE
    /\ cancel_requested' = cancel_requested \cup {"_auto_categorize_posts"}
    /\ UNCHANGED <<acpc, ac_category, ac_rows, ac_i, ac_calls, uncaught,
                   last_call>>
    /\ UNCHANGED storeVars
    /\ UNCHANGED notBatch

\* Mutant: the download loop without its wasCanceled() test.
DownloadItem_Unchecked(outcome) ==
    LET reddit_id == ac_rows[ac_i + 1]
        D == {i \in DOMAIN saved_posts : saved_posts[i].reddit_id = reddit_id}
    IN /\ acpc = "download"
       /\ ac_i < Len(ac_rows)
       /\ ac_calls' = Append(ac_calls, [op |-> "fetch_post_details",
                                        reddit_id |-> reddit_id])
       /\ IF outcome = "raise"
          THEN /\ acpc' = "done"
               /\ UNCHANGED <<saved_posts, ac_i>>
          ELSE /\ saved_posts' =
                     StoreContent(saved_posts, D, [i \in D |-> outcome])
               /\ ac_i' = ac_i + 1
               /\ UNCHANGED acpc
       /\ UNCHANGED <<ac_category, ac_rows, canceled, cancel_requested,
                      uncaught, last_call>>
       /\ UNCHANGED <<subreddits, categories, subTree, catTree>>
       /\ UNCHANGED notBatch

\* One turn of the download loop: the wasCanceled() test, then
\* fetch_post_details and the UPDATE of the row with what it returned.  An
\* exception ends the handler in its "except Exception".
DownloadItem(outcome) ==
    LET reddit_id == ac_rows[ac_i + 1]
        D == {i \in DOMAIN saved_posts : saved_posts[i].reddit_id = reddit_id}
    IN /\ acpc = "download"
       /\ ac_i < Len(ac_rows)
       /\ IF canceled
          THEN \* return
               /\ acpc' = "done"
               /\ UNCHANGED <<saved_posts, ac_i, ac_calls>>
          ELSE /\ ac_calls' = Append(ac_calls, [op |-> "fetch_post_details",
                                                reddit_id |-> reddit_id])
               /\ IF outcome = "raise"
                  THEN /\ acpc' = "done"
                       /\ UNCHANGED <<saved_posts, ac_i>>
                  ELSE /\ saved_posts' =
                             StoreContent(saved_posts, D,
                                          [i \in D |-> outcome])
                       /\ ac_i' = ac_i + 1
                       /\ UNCHANGED acpc
       /\ UNCHANGED <<ac_category, ac_rows, canceled, cancel_requested,
                      uncaught, last_call>>
       /\ UNCHANGED <<subreddits, categories, subTree, catTree>>
       /\ UNCHANGED notBatch

\* The download loop ran out: the SELECT of the posts to categorize and a
\* new progress dialog.
DownloadEnd ==
    LET posts == CategoryRows(saved_posts, subreddits, ac_category, TRUE)
    IN /\ acpc = "download"
       /\ ac_i = Len(ac_rows)
       /\ acpc' = IF posts = <<>> THEN "done" ELSE "categorize"
       /\ ac_rows' = posts
       /\ ac_i' = 0
       /\ canceled' = FALSE
       /\ UNCHANGED <<ac_category, ac_calls, cancel_requested, uncaught,
                      last_call>>
       /\ UNCHANGED storeVars
       /\ UNCHANGED notBatch

\* One evaluation of the categorization loop: when the rows ran out, or
\* Cancel was pressed, the lines after the loop; else RedditPost(...),
\* categorize_post and the UPDATE of category and summary.
CategorizeTurn(suggested_category) ==
    LET reddit_id == ac_rows[ac_i + 1]
        at == {i \in DOMAIN saved_posts :
                  saved_posts[i].reddit_id = reddit_id}
    IN /\ acpc = "categorize"
       /\ IF ac_i = Len(ac_rows) \/ canceled
          THEN /\ acpc' = "done"
               /\ catTree' =
                     IF canceled THEN catTree
                     ELSE RefreshCategoryCounts(catTree, categories,
                                                saved_posts)
               /\ UNCHANGED <<saved_posts, ac_i, ac_calls>>
          ELSE IF ~RedditPostAccepts(AutoCategorizeKwargs)
          THEN \* TypeError, caught by the handler's "except Exception"
               /\ acpc' = "done"
               /\ UNCHANGED <<saved_posts, catTree, ac_i, ac_calls>>
          ELSE /\ ac_calls' = Append(ac_calls, [op |-> "categorize_post",
                                                reddit_id |-> reddit_id])
               /\ saved_posts' =
                     [i \in DOMAIN saved_posts |->
                         IF /\ i \in at
                            /\ \/ suggested_category # ac_category
                               \/ saved_posts[i].summary = NULL
                         THEN [saved_posts[i] EXCEPT
                                  !.category = suggested_category,
                                  !.summary = "summary"]
                         ELSE saved_posts[i]]
               /\ ac_i' = ac_i + 1
               /\ UNCHANGED <<acpc, catTree>>
       /\ UNCHANGED <<ac_category, ac_rows, canceled, cancel_requested,
                      uncaught, last_call>>
       /\ UNCHANGED <<subreddits, categories, subTree>>
       /\ UNCHANGED notBatch

----------------------------------------------------------------------------
(* The category view and its browser navigation *)

\* The longest navigation list followed: with two saved posts, room for
\* two repeated entries.
MaxNavPosts == 4

\* added_date of a saved post, the post's created_utc: "a" is the newer.
AddedDate(id) == IF id = "a" THEN 2 ELSE 1

\* ORDER BY sp.added_date DESC over a set of reddit_ids
RECURSIVE ByAddedDateDesc(_)
ByAddedDateDesc(ids) ==
    IF ids = {} THEN <<>>
    ELSE LET newest == CHOOSE x \in ids :
                           \A y \in ids : AddedDate(y) <= AddedDate(x)
         IN <<newest>> \o ByAddedDateDesc(ids \ {newest})

\* SELECT show_in_categories FROM saved_posts WHERE reddit_id = ? with
\* fetchone(): <<>> for no row.
ShowInCategories(posts, reddit_id) ==
    LET rows == {i \in DOMAIN posts : posts[i].reddit_id = reddit_id}
    IN IF rows = {} THEN <<>>
       ELSE <<posts[FirstOf(rows)].show_in_categories>>

\* Python's list[index] for an index from 0, negative ones counting from
\* the end; <<>> stands for IndexError.
ListItem(lst, index) ==
    LET at == IF index < 0 THEN Len(lst) + index + 1 ELSE index + 1
    IN IF at \in DOMAIN lst THEN <<lst[at]>> ELSE <<>>

\* RedditExplorer._update_category_post on the navigation list and index:
\* the first post with this id is popped (and the index decremented) when
\* the post is hidden and appended once more when it is shown; a post not
\* in the list leaves both alone, the block that would add it being under
\* "if (False)".  SubredditView.add_post and remove_post_widget do the same
\* to the widgets of the view, which therefore carry the ids of the list.
UpdateCategoryPost(lst, index, post_id, show_in_categories) ==
    LET hits == {i \in DOMAIN lst : lst[i] = post_id}
    IN IF hits = {} THEN [posts |-> lst, index |-> index]
       ELSE IF ~show_in_categories
       THEN [posts |-> RemoveAt(lst, FirstOf(hits)), index |-> index - 1]
       ELSE [posts |-> Append(lst, lst[FirstOf(hits)]), index |-> index]

\* RedditExplorer._handle_browser_category_changed in category view, as a
\* function of the state it finds: url is the match of the browser's URL,
\* show is state == 2.  It yields the saved_posts table, the navigation
\* list and the index it leaves.
BrowserCategoryChanged(posts, lst, index, url, show) ==
    IF url = <<>> THEN [saved |-> posts, posts |-> lst, index |-> index]
    ELSE LET upd == UpdateCategoryPost(lst, index, url[1], show)
             at == {i \in DOMAIN upd.posts : upd.posts[i] = url[1]}
         IN [saved |-> UpdatePostCategoryVisibility(posts, url[1], show),
             posts |-> upd.posts,
             index |-> IF ~show /\ at # {} THEN FirstOf(at) - 1
                       ELSE upd.index]

\* The click on an item of the Categories root: load_category_posts.  The
\* browser is hidden, its URL is kept.
LoadCategoryView(k) ==
    LET category_name == catTree[k].name
        rows == LoadCategoryPosts(saved_posts, subreddits, category_name)
    IN /\ k \in DOMAIN catTree
       /\ current_category_name' = category_name
       /\ current_category_posts' =
              ByAddedDateDesc({saved_posts[i].reddit_id : i \in rows})
       /\ current_post_index' = -1
       /\ browser_shown' = FALSE
       /\ last_call' = Call("load_category_posts", FALSE)
       /\ UNCHANGED <<browser_url, browser_category_checkbox,
                      next_btn_enabled, uncaught>>
       /\ UNCHANGED storeVars
       /\ UNCHANGED notNav

\* PostWidget.mouseDoubleClickEvent on a widget of the category view.  The
\* index goes to the first list position of the post, setChecked(True)
\* emits stateChanged when the box was unchecked (the handler then reads
\* the URL of the page shown before), the browser replaces the view and
\* loads the post; redirected tells whether the page settles on Reddit's
\* canonical URL ".../comments/<id>/<slug>/", the only form the handler's
\* pattern matches.
MouseDoubleClickEvent(id, redirected) ==
    LET hits == {i \in DOMAIN current_category_posts :
                    current_category_posts[i] = id}
        i == FirstOf(hits) - 1
        res == IF browser_category_checkbox
               THEN [saved |-> saved_posts, posts |-> current_category_posts,
                     index |-> i]
               ELSE BrowserCategoryChanged(saved_posts,
                                           current_category_posts, i,
                                           browser_url, TRUE)
    IN /\ current_category_name # NULL
       /\ ~browser_shown
       /\ hits # {}
       /\ Len(res.posts) <= MaxNavPosts
       /\ saved_posts' = res.saved
       /\ catTree' = IF browser_category_checkbox \/ browser_url = <<>>
                     THEN catTree
                     ELSE RefreshCategoryCounts(catTree, categories, res.saved)
       /\ current_category_posts' = res.posts
       /\ current_post_index' = res.index
       /\ next_btn_enabled' = (i < Len(current_category_posts) - 1)
       /\ browser_category_checkbox' = TRUE
       /\ browser_shown' = TRUE
       /\ browser_url' = IF redirected THEN <<id>> ELSE <<>>
       /\ last_call' = Call("mouseDoubleClickEvent", FALSE)
       /\ UNCHANGED <<current_category_name, uncaught>>
       /\ UNCHANGED <<subreddits, categories, subTree>>
       /\ UNCHANGED notNav

\* The index _handle_next_click moves to: one further, and back to 0 when
\* that is at or past len - 1.
NextIndex(index, len) == IF index + 1 >= len - 1 THEN 0 ELSE index + 1

\* RedditExplorer._handle_next_click.  The checkbox is set from the store
\* with its signal disconnected.
HandleNextClick(redirected) ==
    LET index == NextIndex(current_post_index, Len(current_category_posts))
        post == ListItem(current_category_posts, index)
        result == ShowInCategories(saved_posts, post[1])
    IN /\ browser_shown
       /\ next_btn_enabled
       /\ last_call' = Call("_handle_next_click", FALSE)
       /\ IF current_category_posts = <<>>
          THEN /\ next_btn_enabled' = FALSE
               /\ UNCHANGED <<current_post_index, browser_url,
                              browser_category_checkbox, uncaught>>
          ELSE /\ current_post_index' = index
               /\ IF post = <<>>
                  THEN /\ uncaught' = "IndexError"
                       /\ UNCHANGED <<browser_url, browser_category_checkbox,
                                      next_btn_enabled>>
                  ELSE /\ next_btn_enabled' = TRUE
                       /\ browser_category_checkbox' =
                              IF result = <<>> THEN browser_category_checkbox
                              ELSE result[1]
                       /\ browser_url' = IF redirected THEN post ELSE <<>>
                       /\ UNCHANGED uncaught
       /\ UNCHANGED <<current_category_name, current_category_posts,
                      browser_shown>>
       /\ UNCHANGED storeVars
       /\ UNCHANGED notNav

\* RedditExplorer._handle_done_click in category view.  The browser's URL is
\* cleared before _update_category_post runs, so the stateChanged that the
\* closing setChecked may emit finds no post id.
HandleDoneClick ==
    LET post == IF current_post_index >= 0
                THEN ListItem(current_category_posts, current_post_index)
                ELSE <<>>
        show_in_categories == IF post = <<>> THEN <<>>
                              ELSE ShowInCategories(saved_posts, post[1])
        upd == IF show_in_categories = <<>>
               THEN [posts |-> current_category_posts,
                     index |-> current_post_index]
               ELSE UpdateCategoryPost(current_category_posts,
                                       current_post_index, post[1],
                                       show_in_categories[1])
    IN /\ browser_shown
       /\ Len(upd.posts) <= MaxNavPosts
       /\ browser_shown' = FALSE
       /\ browser_url' = <<>>
       /\ current_category_posts' = upd.posts
       /\ current_post_index' = upd.index
       /\ browser_category_checkbox' =
              IF show_in_categories = <<>> THEN browser_category_checkbox
              ELSE show_in_categories[1]
       /\ last_call' = Call("_handle_done_click", FALSE)
       /\ UNCHANGED <<current_category_name, next_btn_enabled, uncaught>>
       /\ UNCHANGED storeVars
       /\ UNCHANGED notNav

\* The user ticks or unticks the browser's "Show in categories" checkbox:
\* stateChanged runs _handle_browser_category_changed.
ToggleBrowserCategoryCheckbox ==
    LET show == ~browser_category_checkbox
        res == BrowserCategoryChanged(saved_posts, current_category_posts,
                                      current_post_index, browser_url, show)
    IN /\ browser_shown
       /\ Len(res.posts) <= MaxNavPosts
       /\ browser_category_checkbox' = show
       /\ saved_posts' = res.saved
       /\ catTree' = IF browser_url = <<>> THEN catTree
                     ELSE RefreshCategoryCounts(catTree, categories, res.saved)
       /\ current_category_posts' = res.posts
       /\ current_post_index' = res.index
       /\ last_call' = Call("_handle_browser_category_changed", FALSE)
       /\ UNCHANGED <<current_category_name, browser_shown, browser_url,
                      next_btn_enabled, uncaught>>
       /\ UNCHANGED <<subreddits, categories, subTree>>
       /\ UNCHANGED notNav

----------------------------------------------------------------------------
(* The link importer, run against the store between two sessions *)

\* An import line as the "/"-separated segments of its URL.
ImportLinks ==
    {<<"https:", "", "www.reddit.com", "r", "localllama", "comments", "a", "t">>,
     <<"https:", "", "www.reddit.com", "r", "rust", "comments", "b", "">>,
     <<"https:", "", "www.reddit.com", "user", "rust">>}

\* LinkImporter.parse_reddit_url: re.search of
\* reddit\.com/r/([^/]+)/comments/([^/]+); <<>> stands for None.
ParseRedditUrl(url) ==
    LET hits == {i \in 1..(Len(url) - 4) :
                    /\ url[i] \in {"reddit.com", "www.reddit.com"}
                    /\ url[i + 1] = "r"
                    /\ url[i + 2] # ""
                    /\ url[i + 3] = "comments"
                    /\ url[i + 4] # ""}
    IN IF hits = {} THEN <<>>
       ELSE <<url[FirstOf(hits) + 2], url[FirstOf(hits) + 4]>>

\* What retry_with_backoff followed by extract_post_info_from_content can
\* come to for one line: every attempt returned the sentinel (None), a
\* document that does not parse, or a document that parses.
ImportFetchResults == {"exhausted", "unparsable", "parsed"}

\* LinkImporter.import_links on a file of one line, then the construction of
\* RedditExplorer, whose _load_subreddits builds both trees from the store.
ImportLinksRun(link, result) ==
    LET parsed == ParseRedditUrl(link)
        subreddit_name == parsed[1]
        post_id == parsed[2]
        found == SubredditMatches(subreddits, subreddit_name)
        \* ensure_subreddit_exists
        subs == IF found = {}
                THEN Append(subreddits, [id |-> NextRowId(subreddits),
                                         name |-> subreddit_name])
                ELSE subreddits
        subreddit_id == IF found = {} THEN NextRowId(subreddits)
                        ELSE subreddits[FirstOf(found)].id
        skip == parsed = <<>> \/ PostExists(saved_posts, post_id)
        posts == IF skip \/ result # "parsed" THEN saved_posts
                 ELSE Append(saved_posts,
                             NewSavedPost(post_id, subreddit_id, DOC))
        subs2 == IF skip THEN subreddits ELSE subs
    IN /\ subreddits' = subs2
       /\ saved_posts' = posts
       /\ subTree' = LoadSubredditTree(subs2)
       /\ catTree' = LoadCategoryTree(categories, posts)
       /\ uncaught' = "none"
       /\ UNCHANGED notStore
       /\ last_call' = Call("import_links", FALSE)
       /\ UNCHANGED categories

\* No subreddit load is running.
IdleListing ==
    /\ listing = <<>>
    /\ pc = "idle"
    /\ max_posts = 0
    /\ all_posts = <<>>
    /\ after = <<>>
    /\ fetched = <<>>
    /\ request_failed = FALSE
    /\ view = <<>>

\* The store and the results of import_links as a turn of its loop finds
\* them.
LineStart(subs, posts, errs, imported) ==
    [subreddits |-> subs, saved_posts |-> posts, errors |-> errs,
     total_imported |-> imported]

\* No import is running.
IdleImport ==
    /\ links = <<>>
    /\ max_links = <<>>
    /\ link_i = 0
    /\ errors = <<>>
    /\ total_imported = 0
    /\ ipc = "idle"
    /\ attempt = 0
    /\ delay = 0
    /\ last_result = NULL
    /\ retry_result = NULL
    /\ calls = 0
    /\ sentinels = 0
    /\ sleeps = <<>>
    /\ runs = <<>>
    /\ line_start = LineStart(<<>>, <<>>, <<>>, 0)

\* No categorize_post call is running.
IdleCategorize ==
    /\ cpc = "idle"
    /\ category_map = <<>>
    /\ summary = <<>>
    /\ response = <<>>
    /\ returned = <<>>
    /\ suggestions = [exists |-> FALSE, lines |-> <<>>]
    /\ suggest_mode = FALSE

\* No generate_bullet_points call is running.
IdleBullets ==
    /\ bpc = "idle"
    /\ summaries = <<>>
    /\ batch_start = 0
    /\ all_bullet_points = <<>>
    /\ selection = <<>>
    /\ bullets = <<>>
    /\ extractions = <<>>

\* No post has been fetched.
IdleParse ==
    /\ tz = "UTC"
    /\ dpc = "idle"
    /\ post_data = <<>>
    /\ comments_data = <<>>
    /\ markdown = <<>>
    /\ post_info = <<>>

\* No _auto_categorize_posts call is running and no cancel was asked for.
IdleBatch ==
    /\ acpc = "idle"
    /\ ac_category = NULL
    /\ ac_rows = <<>>
    /\ ac_i = 0
    /\ canceled = FALSE
    /\ ac_calls = <<>>
    /\ cancel_requested = {}

\* RedditExplorer.__init__: no category view loaded, the browser hidden.
IdleNav ==
    /\ current_category_name = NULL
    /\ current_category_posts = <<>>
    /\ current_post_index = -1
    /\ browser_shown = FALSE
    /\ browser_url = <<>>
    /\ browser_category_checkbox = FALSE
    /\ next_btn_enabled = TRUE

----------------------------------------------------------------------------
(* SpecStore *)

\* Database._create_schema on an empty file, RedditExplorer.__init__, and the
\* two add_subreddit calls of main().
InitStore ==
    /\ subreddits = <<[id |-> 1, name |-> "LocalLLaMA"],
                      [id |-> 2, name |-> "Singularity"]>>
    /\ saved_posts = <<>>
    /\ categories = <<[name |-> DEFAULT_CATEGORY, description |-> NULL]>>
    /\ subTree = <<"LocalLLaMA", "Singularity">>
    /\ catTree = <<[name |-> DEFAULT_CATEGORY, count |-> 0]>>
    /\ uncaught = "none"
    /\ last_call = Call("__init__", FALSE)
    /\ IdleListing
    /\ IdleImport
    /\ IdleCategorize
    /\ IdleBullets
    /\ IdleParse
    /\ IdleBatch
    /\ IdleNav

NextStore ==
    \/ \E p \in RedditPosts, o \in FetchOutcomes : SavePost(p, o)
    \/ \E p \in RedditPosts : UnsavePost(p)
    \/ \E id \in PostIds, show \in BOOLEAN : OnCategoryCheckboxChanged(id, show)
    \/ \E id \in PostIds, show \in BOOLEAN : HandleBrowserCategoryChanged(id, show)
    \/ \E id \in PostIds, c \in CatNames : SetCategory(id, c)
    \/ \E c \in CatNames : AddCategory(c)
    \/ \E k \in DOMAIN catTree, c \in CatNames : RenameCategory(k, c)
    \/ \E k \in DOMAIN catTree : RemoveCategory(k)
    \/ \E k \in DOMAIN catTree : UncategorizePosts(k)
    \/ \E k \in DOMAIN catTree : AutoCategorizePosts(k)
    \/ \E l \in ImportLinks, r \in ImportFetchResults : ImportLinksRun(l, r)

SpecStore == InitStore /\ [][NextStore]_vars

----------------------------------------------------------------------------
(* Claims checked under SpecStore *)

\* The number of saved_posts rows with this reddit_id.
RowsWithId(posts, reddit_id) ==
    Cardinality({i \in DOMAIN posts : posts[i].reddit_id = reddit_id})

\* The reddit_ids of the saved posts.
SavedIds(posts) == {posts[i].reddit_id : i \in DOMAIN posts}

\* The row of a saved post.
RowOf(posts, reddit_id) ==
    posts[CHOOSE i \in DOMAIN posts : posts[i].reddit_id = reddit_id]

\* C1: saving is idempotent.  Every save_post call leaves exactly one
\* saved_posts row with the post's reddit_id; a call for a reddit_id that is
\* already saved raises nothing and leaves the whole table (so every field of
\* the existing row) as it was.
C1_SaveIdempotent ==
    [][\A p \in RedditPosts, o \in FetchOutcomes :
         (last_call'.op = "save_post" /\ SavePost(p, o)) =>
            /\ RowsWithId(saved_posts', p.id) = 1
            /\ uncaught' = "none"
            /\ RowsWithId(saved_posts, p.id) >= 1 => saved_posts' = saved_posts
      ]_vars

\* C1 witness: a second save_post of a post whose row had been moved to
\* another category and hidden from the category view.
C1_Witness ==
    /\ last_call = Call("save_post", TRUE)
    /\ \E i \in DOMAIN saved_posts :
          /\ saved_posts[i].category = "AI"
          /\ ~saved_posts[i].show_in_categories
          /\ saved_posts[i].content = DOC

\* C2 (as claimed): for every item of the Categories tree the displayed count
\* is the number of saved_posts rows of that category with
\* show_in_categories = 1, and every categories row has an item.
C2_DisplayedCountsMatch ==
    /\ \A i \in DOMAIN catTree :
          catTree[i].count = CategoryCount(saved_posts, catTree[i].name)
    /\ \A c \in CategoryNames(categories) :
          \E i \in DOMAIN catTree : catTree[i].name = c

\* C10: every saved_posts row's category is the name of a categories row.
C10_CategoryReferential ==
    \A i \in DOMAIN saved_posts :
        saved_posts[i].category \in CategoryNames(categories)

\* C10 witness: a rename of AI to misc that went through while a post was
\* in the category, next to a post in the default one.
C10_Witness ==
    /\ last_call = Call("_rename_category", FALSE)
    /\ Len(categories) = 2
    /\ "AI" \notin CategoryNames(categories)
    /\ \E i, j \in DOMAIN saved_posts :
          /\ saved_posts[i].category = "misc"
          /\ saved_posts[j].category = DEFAULT_CATEGORY

----------------------------------------------------------------------------
(* SpecCategories: the category operations of the tree's context menu and  *)
(* of the post widgets, on posts saved from the subreddit view while the    *)
(* detail fetch works                                                       *)

InitCategories == InitStore

NextCategories ==
    \/ \E p \in RedditPosts : SavePost(p, "doc")
    \/ \E id \in PostIds, show \in BOOLEAN : OnCategoryCheckboxChanged(id, show)
    \/ \E id \in PostIds, c \in CatNames : SetCategory(id, c)
    \/ \E c \in CatNames : AddCategory(c)
    \/ \E k \in DOMAIN catTree, c \in CatNames : RenameCategory(k, c)
    \/ \E k \in DOMAIN catTree : RemoveCategory(k)
    \/ \E k \in DOMAIN catTree : UncategorizePosts(k)
    \/ \E k \in DOMAIN catTree, d \in Descriptions : SetCategoryDescription(k, d)

SpecCategories == InitCategories /\ [][NextCategories]_vars

----------------------------------------------------------------------------
(* Claims checked under SpecCategories *)

\* The categories rows named exactly "Uncategorized".
DefaultRows(cats) == {i \in DOMAIN cats : cats[i].name = DEFAULT_CATEGORY}

\* C11: the default category is permanent.  In every state reached from the
\* initialized store by add, rename, remove, uncategorize and set description
\* there is a categories row named exactly "Uncategorized", and no
\* _rename_category or _remove_category step is taken on the item of that
\* name.
C11_DefaultPermanent ==
    /\ [](DefaultRows(categories) # {})
    /\ [][/\ \A k \in DOMAIN catTree, c \in CatNames :
               RenameCategory(k, c) => catTree[k].name # DEFAULT_CATEGORY
          /\ \A k \in DOMAIN catTree :
               RemoveCategory(k) => catTree[k].name # DEFAULT_CATEGORY
         ]_vars

\* C11 witness: a category was just removed while another one, renamed
\* before, is still there, and the default category carries a description.
C11_Witness ==
    /\ last_call = Call("_remove_category", FALSE)
    /\ Len(categories) = 2
    /\ \E i \in DefaultRows(categories) : categories[i].description = "about"

\* C17: removing a category C other than "Uncategorized" deletes no saved
\* post.  The set of reddit_ids is unchanged, the posts of C are in
\* "Uncategorized" afterwards, the posts of other categories keep their
\* category, and every post keeps its show_in_categories value.
C17_RemoveKeepsPosts ==
    [][\A k \in DOMAIN catTree :
         RemoveCategory(k) =>
            /\ SavedIds(saved_posts') = SavedIds(saved_posts)
            /\ Len(saved_posts') = Len(saved_posts)
            /\ \A id \in SavedIds(saved_posts) :
                  LET old == RowOf(saved_posts, id)
                      new == RowOf(saved_posts', id)
                  IN /\ new.category = IF old.category = catTree[k].name
                                       THEN DEFAULT_CATEGORY
                                       ELSE old.category
                     /\ new.show_in_categories = old.show_in_categories
      ]_vars

\* C17 witness: a category was just removed, and a hidden post is in
\* "Uncategorized" next to a visible post of a category that is still there.
C17_Witness ==
    /\ last_call = Call("_remove_category", FALSE)
    /\ \E i, j \in DOMAIN saved_posts :
          /\ saved_posts[i].category = DEFAULT_CATEGORY
          /\ ~saved_posts[i].show_in_categories
          /\ saved_posts[j].category \notin {DEFAULT_CATEGORY}
          /\ saved_posts[j].show_in_categories

----------------------------------------------------------------------------
(* SpecContent: saving, downloading and analyzing the posts of categories  *)

InitContent == InitStore

NextContent ==
    \/ \E p \in RedditPosts, o \in FetchOutcomes : SavePost(p, o)
    \/ \E p \in RedditPosts : UnsavePost(p)
    \/ \E id \in PostIds, c \in CatNames : SetCategory(id, c)
    \/ \E c \in CatNames : AddCategory(c)
    \/ \E k \in DOMAIN catTree, got \in DownloadResults, cancel \in CancelTurns :
          AnalyzeCategoryPosts(k, got, cancel)
    \/ \E k \in DOMAIN catTree : AutoCategorizePosts(k)

SpecContent == InitContent /\ [][NextContent]_vars

----------------------------------------------------------------------------
(* Claims checked under SpecContent *)

\* C12 (as claimed): a failure on one item does not abort a batch.  In a
\* download of a category that the user does not cancel, every post of the
\* category whose own detail fetch does not raise has its content stored,
\* also when the fetch of another post of the batch raised.
C12_BatchFinishes ==
    [][\A k \in DOMAIN catTree, got \in DownloadResults :
         AnalyzeCategoryPosts(k, got, 0) =>
            \A i \in DOMAIN saved_posts' :
               (/\ saved_posts'[i].category = catTree[k].name
                /\ Joined(saved_posts', subreddits', i)
                /\ got[saved_posts'[i].reddit_id] # "raise")
                  => saved_posts'[i].content # NULL
      ]_vars

DownloadOps == {"_analyze_category_posts", "_auto_categorize_posts"}

C30_NoSentinelContent ==
    \A i \in DOMAIN saved_posts : saved_posts[i].content # ERR

----------------------------------------------------------------------------
(* SpecSubreddits: the subreddit operations of the tree's context menu,    *)
(* main() and the importer, with saves and the visibility and category     *)
(* changes of saved posts                                                   *)

\* The largest rowid given to a subreddits row.
MaxRowId == 3

\* The subreddit name a user types in the dialogs: that of a row, in
\* another case.
SubredditNames == {"localllama"}

\* An INSERT INTO subreddits gets a rowid within the bound.
RowIdFree == NextRowId(subreddits) <= MaxRowId

InitSubreddits == InitStore

NextSubreddits ==
    \/ \E p \in RedditPosts : RowIdFree /\ SavePost(p, "doc")
    \/ \E p \in RedditPosts : UnsavePost(p)
    \/ \E id \in PostIds, show \in BOOLEAN : HandleBrowserCategoryChanged(id, show)
    \/ \E id \in PostIds : SetCategory(id, "AI")
    \/ AddCategory("AI")
    \/ RowIdFree /\ Main
    \/ \E name \in SubredditNames : RowIdFree /\ AddSubredditWithDialog(name)
    \/ \E k \in DOMAIN subTree, name \in SubredditNames : RenameSubreddit(k, name)
    \/ \E k \in DOMAIN subTree : RemoveSubreddit(k)
    \/ \E l \in ImportLinks : RowIdFree /\ ImportLinksRun(l, "parsed")

SpecSubreddits == InitSubreddits /\ [][NextSubreddits]_vars

----------------------------------------------------------------------------
(* Claims checked under SpecSubreddits *)

\* The name of the subreddits row with this id, <<>> if there is none.
NameOfId(subs, id) ==
    LET rows == {i \in DOMAIN subs : subs[i].id = id}
    IN IF rows = {} THEN <<>> ELSE <<subs[FirstOf(rows)].name>>

\* C18 (as claimed): subreddit names are unique up to case.  In every
\* reachable state no two subreddits rows have names that are equal ignoring
\* case, and a row that exists keeps its spelling in every step that is no
\* rename or removal of it.
C18_UniqueUpToCase ==
    /\ [](\A i, j \in DOMAIN subreddits :
             Lower(subreddits[i].name) = Lower(subreddits[j].name) => i = j)
    /\ [][last_call'.op \notin {"_rename_subreddit", "_remove_subreddit"} =>
             \A r \in Range(subreddits) :
                NameOfId(subreddits', r.id) = <<r.name>>
         ]_vars

\* C19 (as claimed): the category view is exact.  For every category,
\* load_category_posts lists exactly the saved posts of that category with
\* show_in_categories = 1, as many as the category's post count.
C19_CategoryViewExact ==
    \A c \in CategoryNames(categories) :
        /\ LoadCategoryPosts(saved_posts, subreddits, c)
              = {i \in DOMAIN saved_posts :
                    /\ saved_posts[i].category = c
                    /\ saved_posts[i].show_in_categories}
        /\ Cardinality(LoadCategoryPosts(saved_posts, subreddits, c))
              = CategoryCount(saved_posts, c)

----------------------------------------------------------------------------
(* Listing fetch and subreddit load *)

\* new.json?limit=100: the posts of one page
PAGE_LIMIT == 100

\* config/constants.py
MAX_POSTS == 400

\* _load_subreddit_posts: "Also stop if we hit the limit"
LOAD_LIMIT == 200

\* "Show 600" of the subreddit context menu
SHOW_COUNT == 600

\* The longest listing of the model.
MaxListing == 601

ListingLengths ==
    {0, 1, 2, 99, 100, 101, 150, 199, 200, 201, 250, 400, 401, 600, MaxListing}

\* A listing of n posts, newest first; ids grow with time, as Reddit's do.
Listing(n) == [i \in 1..n |-> n - i + 1]

\* Listing positions (1 = newest) of the posts saved earlier, in the order
\* they were saved; a position past the end is a post older than the listing.
KnownChoices ==
    {<<>>, <<1>>, <<2>>, <<100>>, <<101>>, <<150>>, <<200>>, <<201>>, <<400>>,
     <<401>>, <<2, 150>>, <<150, 2>>, <<250, 201>>}

\* max_posts arguments: the default, the "Show 600" count, and small ones.
MaxPostsArgs == {1, 2, 100, 101, 250, MAX_POSTS, SHOW_COUNT}

\* The subreddit whose listing is modelled.
ListedSubreddit == "LocalLLaMA"

\* Outcomes of one requests.get of fetch_subreddit_posts.
PageOutcomes == {"ok", "RequestException", "KeyError"}

Min(a, b) == IF a <= b THEN a ELSE b

\* list.reverse()
Reverse(s) == [i \in DOMAIN s |-> s[Len(s) - i + 1]]

\* Position of the post with this id in the listing, 0 if none.
IndexOf(lst, id) ==
    IF \E i \in DOMAIN lst : lst[i] = id
    THEN CHOOSE i \in DOMAIN lst : lst[i] = id
    ELSE 0

\* Reddit's answer to new.json?limit=100[&after=t3_<id>]
Page(lst, aft) ==
    LET from == IF aft = <<>> THEN 1 ELSE IndexOf(lst, aft[1]) + 1
    IN SubSeq(lst, from, Min(from + PAGE_LIMIT - 1, Len(lst)))

\* SELECT reddit_id FROM saved_posts sp JOIN subreddits s
\*   ON sp.subreddit_id = s.id WHERE s.name = ?
KnownSaved(rows, subs, name) ==
    {rows[i].reddit_id : i \in
        {i \in DOMAIN rows : \E j \in DOMAIN subs :
            /\ subs[j].id = rows[i].subreddit_id
            /\ subs[j].name = name}}

\* Mutant: the walk also ends once a post fetched is a saved one.
WalkContinues_UntilKnown(fetched_posts, limit) ==
    /\ Len(fetched_posts) < limit
    /\ \A i \in DOMAIN fetched_posts :
          fetched_posts[i] \notin
             KnownSaved(saved_posts, subreddits, ListedSubreddit)

\* while len(all_posts) < max_posts
WalkContinues(fetched_posts, limit) == Len(fetched_posts) < limit

\* Mutant: the slice forgotten.
ReturnSlice_Whole(fetched_posts, limit) == fetched_posts

\* all_posts[:max_posts]
ReturnSlice(fetched_posts, limit) ==
    SubSeq(fetched_posts, 1, Min(limit, Len(fetched_posts)))

\* The turns of the loop of _load_subreddit_posts that end in a break: the
\* post is saved, or posts_to_show (i posts at turn i) has reached the limit.
BreakTurns(fetched_posts, saved) ==
    {i \in DOMAIN fetched_posts :
        fetched_posts[i] \in saved \/ i >= LOAD_LIMIT}

\* Mutant: the saved post tested before it is appended.
PostsToShow_Exclusive(fetched_posts, saved) ==
    LET breaks == BreakTurns(fetched_posts, saved)
        last == IF breaks = {} THEN Len(fetched_posts)
                ELSE CHOOSE i \in breaks : \A j \in breaks : i <= j
    IN IF last \in DOMAIN fetched_posts /\ fetched_posts[last] \in saved
       THEN SubSeq(fetched_posts, 1, last - 1)
       ELSE SubSeq(fetched_posts, 1, last)

\* posts_to_show when the loop of _load_subreddit_posts ends: every turn
\* appends its post, the first breaking turn is the last one.
PostsToShow(fetched_posts, saved) ==
    LET breaks == BreakTurns(fetched_posts, saved)
        last == IF breaks = {} THEN Len(fetched_posts)
                ELSE CHOOSE i \in breaks : \A j \in breaks : i <= j
    IN SubSeq(fetched_posts, 1, last)

\* Mutant: is_saved left at add_post's default.
AddPosts_Unchecked(posts_to_show, saved) ==
    [i \in DOMAIN posts_to_show |->
        [id |-> posts_to_show[i], is_saved |-> FALSE]]

\* The add_post loop: one widget per post, appended to the layout, its
\* "added" checkbox set to is_saved.
AddPosts(posts_to_show, saved) ==
    [i \in DOMAIN posts_to_show |->
        [id |-> posts_to_show[i], is_saved |-> posts_to_show[i] \in saved]]

\* RedditExplorer._load_subreddit_posts up to its call of
\* fetch_all_subreddit_posts (max_posts defaults to MAX_POSTS).
LoadSubredditPosts ==
    /\ pc = "idle"
    /\ view' = <<>>
    /\ max_posts' = MAX_POSTS
    /\ all_posts' = <<>>
    /\ after' = <<>>
    /\ pc' = "fetching"
    /\ last_call' = Call("_load_subreddit_posts", FALSE)
    /\ UNCHANGED <<listing, fetched, request_failed, uncaught>>
    /\ UNCHANGED notListing

\* RedditService.fetch_all_subreddit_posts(ListedSubreddit, m) called on
\* its own.
FetchAllSubredditPosts(m) ==
    /\ pc = "idle"
    /\ max_posts' = m
    /\ all_posts' = <<>>
    /\ after' = <<>>
    /\ pc' = "fetching"
    /\ last_call' = Call("fetch_all_subreddit_posts", FALSE)
    /\ UNCHANGED <<listing, fetched, request_failed, view, uncaught>>
    /\ UNCHANGED notListing

\* One turn of the while loop of fetch_all_subreddit_posts: a call of
\* fetch_subreddit_posts and what the loop does with its result.
FetchPage(outcome) ==
    /\ pc = "fetching"
    /\ WalkContinues(all_posts, max_posts)
    /\ CASE outcome = "ok" ->
              LET page == Page(listing, after)
              IN IF page = <<>>
                 THEN /\ pc' = "return"
                      /\ UNCHANGED <<all_posts, after, request_failed,
                                     uncaught>>
                 ELSE /\ all_posts' = all_posts \o page
                      /\ after' = <<page[Len(page)]>>
                      /\ pc' = "fetching"
                      /\ UNCHANGED <<request_failed, uncaught>>
         [] outcome = "RequestException" ->
              \* caught in fetch_subreddit_posts, which returns []
              /\ request_failed' = TRUE
              /\ pc' = "return"
              /\ UNCHANGED <<all_posts, after, uncaught>>
         [] outcome = "KeyError" ->
              \* not a RequestException: leaves both functions
              /\ uncaught' = "KeyError"
              /\ pc' = "raised"
              /\ UNCHANGED <<all_posts, after, request_failed>>
    /\ UNCHANGED <<listing, max_posts, fetched, view, last_call>>
    /\ UNCHANGED notListing

\* The return of fetch_all_subreddit_posts, after a break or when the while
\* condition fails.
ReturnPosts ==
    /\ \/ pc = "return"
       \/ pc = "fetching" /\ ~WalkContinues(all_posts, max_posts)
    /\ fetched' = ReturnSlice(all_posts, max_posts)
    /\ pc' = IF last_call.op = "_load_subreddit_posts" THEN "fetched"
             ELSE "done"
    /\ UNCHANGED <<listing, max_posts, all_posts, after, request_failed, view,
                   uncaught, last_call>>
    /\ UNCHANGED notListing

\* The rest of _load_subreddit_posts: the truncation loop, the reversal and
\* the add_post loop.
ShowPosts ==
    LET saved == KnownSaved(saved_posts, subreddits, ListedSubreddit)
        posts_to_show == PostsToShow(fetched, saved)
    IN /\ pc = "fetched"
       /\ view' = AddPosts(Reverse(posts_to_show), saved)
       /\ pc' = "shown"
       /\ UNCHANGED <<listing, max_posts, all_posts, after, fetched,
                      request_failed, uncaught, last_call>>
       /\ UNCHANGED notListing

----------------------------------------------------------------------------
(* SpecListing *)

\* A store with the posts of one choice saved earlier, a listing at Reddit,
\* and no load running.
InitListing ==
    /\ subreddits = <<[id |-> 1, name |-> "LocalLLaMA"],
                      [id |-> 2, name |-> "Singularity"]>>
    /\ categories = <<[name |-> DEFAULT_CATEGORY, description |-> NULL]>>
    /\ \E n \in ListingLengths, known \in KnownChoices :
          /\ listing = Listing(n)
          /\ saved_posts =
                [j \in DOMAIN known |->
                    NewSavedPost(n - known[j] + 1, 1, DOC)]
                \o <<NewSavedPost(n + 1, 2, DOC)>>
    /\ subTree = LoadSubredditTree(subreddits)
    /\ catTree = LoadCategoryTree(categories, saved_posts)
    /\ uncaught = "none"
    /\ last_call = Call("__init__", FALSE)
    /\ pc = "idle"
    /\ max_posts = 0
    /\ all_posts = <<>>
    /\ after = <<>>
    /\ fetched = <<>>
    /\ request_failed = FALSE
    /\ view = <<>>
    /\ IdleImport
    /\ IdleCategorize
    /\ IdleBullets
    /\ IdleParse
    /\ IdleBatch
    /\ IdleNav

NextListing ==
    \/ LoadSubredditPosts
    \/ \E m \in MaxPostsArgs : FetchAllSubredditPosts(m)
    \/ \E o \in PageOutcomes : FetchPage(o)
    \/ ReturnPosts
    \/ ShowPosts

SpecListing == InitListing /\ [][NextListing]_vars

----------------------------------------------------------------------------
(* Claims checked under SpecListing *)

\* The known-saved-ID set of the load.
Known == KnownSaved(saved_posts, subreddits, ListedSubreddit)

\* The smallest listing position whose post is known, 0 if there is none.
FirstKnown ==
    LET hits == {i \in DOMAIN listing : listing[i] \in Known}
    IN IF hits = {} THEN 0 ELSE CHOOSE i \in hits : \A j \in hits : i <= j

\* The posts the load put into the view.
ShownIds == {view[i].id : i \in DOMAIN view}

FirstOfListing(k) == {listing[j] : j \in 1..k}

\* C4 (as claimed): when the listing p1..pn holds a known post, pk being the
\* first, a load whose page fetches all succeeded shows exactly p1..pk,
\* whatever k is.
C4_EarlyStopExact ==
    (pc = "shown" /\ ~request_failed /\ FirstKnown > 0)
        => ShownIds = FirstOfListing(FirstKnown)

\* C4 (amended): a load whose page fetches all succeeded shows exactly
\* p1..pk when the first known post pk is among the first LOAD_LIMIT posts of
\* the listing, and exactly the first min(n, LOAD_LIMIT) posts otherwise.
C4_EarlyStopWithinLimit ==
    (pc = "shown" /\ ~request_failed)
        => ShownIds = FirstOfListing(IF FirstKnown \in 1..LOAD_LIMIT
                                     THEN FirstKnown
                                     ELSE Min(Len(listing), LOAD_LIMIT))

\* C4 witness: the first known post is the 150th, on the second page, with
\* newer posts before it and older ones after it.
C4_Witness ==
    /\ pc = "shown"
    /\ ~request_failed
    /\ FirstKnown = 150
    /\ Len(listing) > 150
    /\ Len(view) = 150
    /\ view[1].id = listing[150]

\* C5: when the listing holds more than max_posts posts, none of them known,
\* and no page fetch failed, fetch_all_subreddit_posts returns the first
\* max_posts posts of the listing, in listing order.
C5_PaginationCeiling ==
    (/\ pc \in {"done", "fetched"}
     /\ ~request_failed
     /\ Len(listing) > max_posts
     /\ FirstKnown = 0)
        => fetched = SubSeq(listing, 1, max_posts)

\* C5 witness: max_posts = 250 is reached inside the third page.
C5_Witness ==
    /\ pc = "done"
    /\ ~request_failed
    /\ FirstKnown = 0
    /\ max_posts = 250
    /\ Len(listing) > 250
    /\ Len(all_posts) = 300
    /\ Len(fetched) = 250

\* C9 (as claimed): the view shows the retained posts newest first (each
\* post above the next older one), and a post's "added" checkbox is checked
\* exactly when its id is known.
C9_ShownNewestFirst ==
    pc = "shown" =>
        /\ \A i \in 1..(Len(view) - 1) :
              IndexOf(listing, view[i].id) < IndexOf(listing, view[i + 1].id)
        /\ \A i \in DOMAIN view : view[i].is_saved <=> view[i].id \in Known

\* C9 (amended): the view shows the retained posts oldest first (each post
\* above the next newer one), and a post's "added" checkbox is checked
\* exactly when its id is known.
C9_ShownOldestFirst ==
    pc = "shown" =>
        /\ \A i \in 1..(Len(view) - 1) :
              IndexOf(listing, view[i].id) > IndexOf(listing, view[i + 1].id)
        /\ \A i \in DOMAIN view : view[i].is_saved <=> view[i].id \in Known

\* C9 witness: the listing [a, b] = [2, 1] with b known: b is shown first and
\* checked, a second and unchecked.
C9_Witness ==
    /\ pc = "shown"
    /\ listing = <<2, 1>>
    /\ Known = {1}
    /\ view = <<[id |-> 1, is_saved |-> TRUE], [id |-> 2, is_saved |-> FALSE]>>

\* C15 (as claimed): a listing fetch fails softly.  When the fetch or the
\* decoding of a page fails after the pages before it succeeded, no exception
\* leaves the listing fetch, and it returns the posts of the pages before,
\* cut to max_posts: nothing when the first page failed.
C15_ListingSoftFailure ==
    /\ pc # "raised"
    /\ uncaught = "none"
    /\ (request_failed /\ pc \in {"done", "fetched", "shown"}) =>
          /\ all_posts = SubSeq(listing, 1, Len(all_posts))
          /\ fetched = SubSeq(listing, 1, Min(max_posts, Len(all_posts)))

\* C24 (as claimed): once a page fetched by the load holds a known post, no
\* further listing page is requested: the page requests end with the page of
\* the first known post.
C24_EarlyStopHaltsWalk ==
    [][\A o \in PageOutcomes :
          (last_call.op = "_load_subreddit_posts" /\ FetchPage(o))
             => \A i \in DOMAIN all_posts : all_posts[i] \notin Known]_vars

\* C24 (amended): a known post on a fetched page does not end the walk.  A
\* load whose page fetches all succeeded has fetched the listing page by
\* page up to max_posts posts or its end, wherever the known posts are, and
\* it is the posts shown that end with the first known post when that is
\* among the first LOAD_LIMIT.
C24_EarlyStopHaltsShow ==
    (/\ last_call.op = "_load_subreddit_posts"
     /\ pc \in {"fetched", "shown"}
     /\ ~request_failed)
        => /\ all_posts =
                SubSeq(listing, 1,
                       Min(Len(listing),
                           PAGE_LIMIT
                              * ((max_posts + PAGE_LIMIT - 1) \div PAGE_LIMIT)))
           /\ (pc = "shown" /\ FirstKnown \in 1..LOAD_LIMIT) =>
                 /\ Len(view) = FirstKnown
                 /\ view[1].id = listing[FirstKnown]

\* C24 witness: the second post of a listing of more than 400 is known; the
\* load fetched four pages and shows two posts.
C24_Witness ==
    /\ last_call.op = "_load_subreddit_posts"
    /\ pc = "shown"
    /\ ~request_failed
    /\ FirstKnown = 2
    /\ Len(listing) > 400
    /\ Len(all_posts) = 400
    /\ Len(view) = 2

----------------------------------------------------------------------------
(* LinkImporter.import_links, one call of the wrapped operation per step *)

MAX_RETRIES == 10

INITIAL_RETRY_DELAY == 1

MAX_RETRY_DELAY == 30

\* The most lines of an import file of the model.
MaxLinks == 2

\* The most runs of the importer.
MaxRuns == 2

\* The max_links arguments: None, and the integers up to one short of the
\* longest file.
MaxLinksArgs == {<<>>} \cup {<<n>> : n \in 0..(MaxLinks - 1)}

\* The files: every sequence of one to MaxLinks lines.
ImportFiles == UNION {[1..n -> ImportLinks] : n \in 1..MaxLinks}

\* fetch_post_details results that start with the sentinel: the text of
\* the requests.RequestException follows it.
ErrorResults ==
    {"Error fetching post details: 429 Client Error: Too Many Requests",
     "Error fetching post details: HTTPSConnectionPool: Read timed out."}

\* A document extract_post_info_from_content returns None for.
UNPARSABLE == "unparsable"

\* What one call of the wrapped operation can come to: a sentinel, a
\* document, or an exception that is no RequestException.
OperationResults == ErrorResults \cup {DOC, UNPARSABLE, "raise"}

\* result.startswith("Error fetching post details")
StartsWithError(result) == result \in ErrorResults \cup {ERR}

\* Mutant: the backoff without its cap.
NextDelay_Uncapped(d) == d * 2

\* min(delay * 2, self.MAX_RETRY_DELAY)
NextDelay(d) == Min(d * 2, MAX_RETRY_DELAY)

\* "if max_links: links = links[:max_links]"
LimitLinks(file, limit) ==
    IF limit # <<>> /\ limit[1] # 0
    THEN SubSeq(file, 1, Min(limit[1], Len(file)))
    ELSE file

\* The lines of import_links up to the for loop; the importer is run at
\* most MaxRuns times.
ImportLinksStart(file, limit) ==
    /\ ipc \in {"idle", "done"}
    /\ Len(runs) < MaxRuns
    /\ runs' = Append(runs, [file |-> file, posts |-> saved_posts])
    /\ max_links' = limit
    /\ links' = LimitLinks(file, limit)
    /\ link_i' = 0
    /\ errors' = <<>>
    /\ total_imported' = 0
    /\ ipc' = "next"
    /\ last_call' = Call("import_links", FALSE)
    /\ UNCHANGED <<subreddits, saved_posts, attempt, delay, last_result,
                   retry_result, calls, sentinels, sleeps, line_start>>
    /\ UNCHANGED notImport

\* One turn of the for loop up to the first call of the operation:
\* parse_reddit_url, the existing-post check, ensure_subreddit_exists and
\* the first lines of retry_with_backoff.
NextLink ==
    LET link == links[link_i + 1]
        parsed == ParseRedditUrl(link)
        found == SubredditMatches(subreddits, parsed[1])
    IN /\ ipc = "next"
       /\ link_i < Len(links)
       /\ link_i' = link_i + 1
       /\ line_start' = LineStart(subreddits, saved_posts, errors,
                                  total_imported)
       /\ IF parsed = <<>>
          THEN /\ errors' = Append(errors, "Invalid Reddit URL")
               /\ UNCHANGED <<subreddits, ipc, attempt, delay, last_result,
                              calls, sentinels, sleeps>>
          ELSE IF PostExists(saved_posts, parsed[2])
          THEN \* "Skip existing posts"
               UNCHANGED <<errors, subreddits, ipc, attempt, delay,
                           last_result, calls, sentinels, sleeps>>
          ELSE /\ subreddits' =
                     IF found = {}
                     THEN Append(subreddits, [id |-> NextRowId(subreddits),
                                              name |-> parsed[1]])
                     ELSE subreddits
               /\ delay' = INITIAL_RETRY_DELAY
               /\ last_result' = NULL
               /\ attempt' = 0
               /\ calls' = 0
               /\ sentinels' = 0
               /\ sleeps' = <<>>
               /\ ipc' = "retry"
               /\ UNCHANGED errors
       /\ UNCHANGED <<links, total_imported, saved_posts, retry_result,
                      last_call, runs, max_links>>
       /\ UNCHANGED notImport

\* One turn of the for loop of retry_with_backoff.
RetryCall(result) ==
    /\ ipc = "retry"
    /\ attempt < MAX_RETRIES
    /\ calls' = calls + 1
    /\ IF result = "raise"
       THEN \* caught by the "except Exception" of import_links
            /\ errors' = Append(errors, "Error processing")
            /\ ipc' = "next"
            /\ UNCHANGED <<attempt, delay, last_result, retry_result,
                           sentinels, sleeps>>
       ELSE IF StartsWithError(result)
       THEN /\ last_result' = result
            /\ sentinels' = sentinels + 1
            /\ IF attempt < MAX_RETRIES - 1
               THEN /\ sleeps' = Append(sleeps, [attempt |-> attempt + 1,
                                                delay |-> delay])
                    /\ delay' = NextDelay(delay)
               ELSE UNCHANGED <<sleeps, delay>>
            /\ attempt' = attempt + 1
            /\ UNCHANGED <<errors, ipc, retry_result>>
       ELSE /\ retry_result' = result
            /\ ipc' = "store"
            /\ UNCHANGED <<errors, attempt, delay, last_result, sentinels,
                           sleeps>>
    /\ UNCHANGED <<links, link_i, total_imported, subreddits, saved_posts,
                   last_call, runs, line_start, max_links>>
    /\ UNCHANGED notImport

\* The for loop of retry_with_backoff ran out: return None.
RetryExhausted ==
    /\ ipc = "retry"
    /\ attempt = MAX_RETRIES
    /\ retry_result' = NULL
    /\ ipc' = "store"
    /\ UNCHANGED <<links, link_i, errors, total_imported, attempt, delay,
                   last_result, calls, sentinels, sleeps, subreddits,
                   saved_posts, last_call, runs, line_start, max_links>>
    /\ UNCHANGED notImport

\* The rest of the turn of import_links: the None check, the parse and the
\* INSERT.
StoreLink ==
    LET parsed == ParseRedditUrl(links[link_i])
        subreddit_id ==
            subreddits[FirstOf(SubredditMatches(subreddits, parsed[1]))].id
    IN /\ ipc = "store"
       /\ IF retry_result = NULL
          THEN /\ errors' = Append(errors, "Failed to fetch post details after retries")
               /\ UNCHANGED <<saved_posts, total_imported>>
          ELSE IF retry_result = UNPARSABLE
          THEN /\ errors' = Append(errors, "Could not parse post content")
               /\ UNCHANGED <<saved_posts, total_imported>>
          ELSE IF RedditIdTaken(saved_posts, parsed[2])
          THEN \* sqlite3.IntegrityError, caught by the "except Exception"
               /\ errors' = Append(errors, "Error processing")
               /\ UNCHANGED <<saved_posts, total_imported>>
          ELSE /\ saved_posts' = Append(saved_posts,
                                        NewSavedPost(parsed[2], subreddit_id,
                                                     retry_result))
               /\ total_imported' = total_imported + 1
               /\ UNCHANGED errors
       /\ ipc' = "next"
       /\ UNCHANGED <<links, link_i, attempt, delay, last_result,
                      retry_result, calls, sentinels, sleeps, subreddits,
                      last_call, runs, line_start, max_links>>
       /\ UNCHANGED notImport

\* The for loop of import_links ran out: return the totals and the errors.
ImportLinksReturn ==
    /\ ipc = "next"
    /\ link_i = Len(links)
    /\ ipc' = "done"
    /\ UNCHANGED <<links, link_i, errors, total_imported, attempt, delay,
                   last_result, retry_result, calls, sentinels, sleeps,
                   subreddits, saved_posts, last_call, runs, line_start,
                   max_links>>
    /\ UNCHANGED notImport

----------------------------------------------------------------------------
(* SpecImport *)

\* The store as main() leaves it, and no import running.
InitImport ==
    /\ subreddits = <<[id |-> 1, name |-> "LocalLLaMA"],
                      [id |-> 2, name |-> "Singularity"]>>
    /\ saved_posts = <<>>
    /\ categories = <<[name |-> DEFAULT_CATEGORY, description |-> NULL]>>
    /\ subTree = <<"LocalLLaMA", "Singularity">>
    /\ catTree = <<[name |-> DEFAULT_CATEGORY, count |-> 0]>>
    /\ uncaught = "none"
    /\ last_call = Call("__init__", FALSE)
    /\ IdleListing
    /\ IdleImport
    /\ IdleCategorize
    /\ IdleBullets
    /\ IdleParse
    /\ IdleBatch
    /\ IdleNav

NextImport ==
    \/ \E file \in ImportFiles, limit \in MaxLinksArgs :
          ImportLinksStart(file, limit)
    \/ NextLink
    \/ \E r \in OperationResults : RetryCall(r)
    \/ RetryExhausted
    \/ StoreLink
    \/ ImportLinksReturn

SpecImport == InitImport /\ [][NextImport]_vars

----------------------------------------------------------------------------
(* Claims checked under SpecImport *)

\* C6: when every call of the wrapped operation returned the error sentinel,
\* retry_with_backoff has called it exactly 10 times and returns None; the
\* delays slept start at 1 second, never decrease from one sleep to the
\* next, are at most 30 seconds each, and none is slept after the 10th
\* attempt.
C6_RetryExhaustion ==
    (ipc = "store" /\ sentinels = calls) =>
        /\ calls = 10
        /\ retry_result = NULL
        /\ sleeps # <<>> /\ sleeps[1].delay = 1
        /\ \A i \in 1..(Len(sleeps) - 1) : sleeps[i].delay <= sleeps[i + 1].delay
        /\ \A i \in DOMAIN sleeps : sleeps[i].delay <= 30
        /\ \A i \in DOMAIN sleeps : sleeps[i].attempt < 10
        /\ \A a \in 1..9 : \E i \in DOMAIN sleeps : sleeps[i].attempt = a

\* C6 witness: ten sentinels in a row, slept 1, 2, 4, 8, 16, 30, 30, 30, 30.
C6_Witness ==
    /\ ipc = "store"
    /\ sentinels = 10
    /\ calls = 10
    /\ [i \in DOMAIN sleeps |-> sleeps[i].delay]
          = <<1, 2, 4, 8, 16, 30, 30, 30, 30>>

\* The lines of a file that parse_reddit_url accepts.
ValidLines(file) == {i \in DOMAIN file : ParseRedditUrl(file[i]) # <<>>}

\* A turn of the for loop on a line whose post_id is in saved_posts: no
\* detail fetch, no change of the store, no error.
SkipsKnownLine ==
    LET parsed == ParseRedditUrl(links[link_i + 1])
    IN (NextLink /\ parsed # <<>> /\ RedditIdTaken(saved_posts, parsed[2])) =>
          /\ ipc' = "next"
          /\ calls' = calls
          /\ saved_posts' = saved_posts
          /\ subreddits' = subreddits
          /\ errors' = errors
          /\ total_imported' = total_imported

\* The second run of the importer has returned, and it was given the file
\* of the first.
SameFileAgain ==
    ipc = "done" /\ Len(runs) = 2 /\ runs[1].file = runs[2].file

\* C13 (as claimed): import skips known posts silently.  A line whose
\* post_id is in saved_posts, also when an earlier line of the same file
\* put it there, causes no detail fetch, no change of saved_posts and no
\* error; a second import of the same file ends with total_imported = 0 and
\* saved_posts as the first import left it.
C13_SkipKnownAlways ==
    /\ [][SkipsKnownLine]_vars
    /\ [](SameFileAgain =>
             total_imported = 0 /\ saved_posts = runs[2].posts)

\* C13 (amended): as above, the second import of the same file ending with
\* total_imported = 0 and no new row when the first import stored every line
\* that parses.
C13_SkipKnown ==
    /\ [][SkipsKnownLine]_vars
    /\ []((/\ SameFileAgain
           /\ \A i \in ValidLines(runs[2].file) :
                 RedditIdTaken(runs[2].posts,
                               ParseRedditUrl(runs[2].file[i])[2]))
             => total_imported = 0 /\ saved_posts = runs[2].posts)

\* C13 witness: a file of two lines for the same post was imported twice;
\* the first import stored the post from its first line and the second
\* import found nothing to do.
C13_Witness ==
    /\ SameFileAgain
    /\ Len(links) = 2
    /\ ParseRedditUrl(links[1]) # <<>>
    /\ ParseRedditUrl(links[1]) = ParseRedditUrl(links[2])
    /\ runs[1].posts = <<>>
    /\ Len(runs[2].posts) = 1
    /\ total_imported = 0
    /\ errors = <<>>

\* C25: a line whose detail fetch ran out of retries, or whose fetched
\* markdown does not parse, adds exactly one error string, leaves the store
\* (subreddits and saved_posts) as it was before the line was processed,
\* does not count in total_imported, and the loop goes on to the next line.
C25_FailedLinePersistsNothing ==
    [][(StoreLink /\ retry_result \in {NULL, UNPARSABLE}) =>
          /\ Len(errors') = Len(line_start.errors) + 1
          /\ SubSeq(errors', 1, Len(line_start.errors)) = line_start.errors
          /\ saved_posts' = line_start.saved_posts
          /\ subreddits' = line_start.subreddits
          /\ total_imported' = line_start.total_imported
          /\ ipc' = "next"]_vars

\* C26: import_links called with an integer max_links >= 0 returns
\* total_processed = min(max_links, number of lines of the file), so at most
\* max_links, and total_imported <= total_processed.
C26_MaxLinksBounds ==
    (ipc = "done" /\ max_links # <<>>) =>
        /\ link_i <= max_links[1]
        /\ link_i = Min(max_links[1], Len(runs[Len(runs)].file))
        /\ total_imported <= link_i

----------------------------------------------------------------------------
(* SpecCancel: the batch loops and a user who asks to cancel *)

\* The user asks to cancel a running import.  import_links takes no cancel
\* flag and reads none: the request changes nothing the importer looks at.
RequestImportCancel ==
    /\ ipc \in {"retry", "store"}
    /\ "import_links" \notin cancel_requested
    /\ cancel_requested' = cancel_requested \cup {"import_links"}
    /\ UNCHANGED <<acpc, ac_category, ac_rows, ac_i, canceled, ac_calls,
                   uncaught, last_call>>
    /\ UNCHANGED storeVars
    /\ UNCHANGED notBatch

\* The explorer is open and no progress dialog is up; the importer, a
\* script of its own, is run after the session.
SessionOpen == acpc \in {"idle", "done"} /\ runs = <<>>

InitCancel == InitStore

NextCancel ==
    \/ \E p \in RedditPosts, o \in {"doc", "raise"} :
          SessionOpen /\ SavePost(p, o)
    \/ \E k \in DOMAIN catTree : SessionOpen /\ AutoCategorizeStart(k)
    \/ PressCancel
    \/ \E o \in {DOC, ERR, "raise"} : DownloadItem(o)
    \/ DownloadEnd
    \/ \E c \in CatNames : CategorizeTurn(c)
    \/ \E file \in ImportFiles :
          SessionOpen /\ ImportLinksStart(file, <<>>)
    \/ RequestImportCancel
    \/ NextLink
    \/ \E r \in OperationResults : RetryCall(r)
    \/ RetryExhausted
    \/ StoreLink
    \/ ImportLinksReturn

SpecCancel == InitCancel /\ [][NextCancel]_vars

----------------------------------------------------------------------------
(* Claims checked under SpecCancel *)

\* Once the user asked to cancel a running _auto_categorize_posts, no
\* further post is fetched or categorized and no row is written.
AutoCategorizeStops ==
    (/\ "_auto_categorize_posts" \in cancel_requested
     /\ acpc \in {"download", "categorize"})
        => ac_calls' = ac_calls /\ saved_posts' = saved_posts

----------------------------------------------------------------------------
(* SpecNav: a category view over the posts saved before it was opened,     *)
(* with the double-click on a post, Next, the browser's checkbox and Done  *)

\* No category view was loaded yet: the posts are saved from a subreddit
\* view.
NavClosed == current_category_name = NULL

InitNav == InitStore

NextNav ==
    \/ \E p \in RedditPosts : NavClosed /\ SavePost(p, "doc")
    \/ \E k \in DOMAIN catTree : LoadCategoryView(k)
    \/ \E id \in PostIds, redirected \in BOOLEAN :
          MouseDoubleClickEvent(id, redirected)
    \/ \E redirected \in BOOLEAN : HandleNextClick(redirected)
    \/ HandleDoneClick
    \/ ToggleBrowserCategoryCheckbox

SpecNav == InitNav /\ [][NextNav]_vars

----------------------------------------------------------------------------
(* Claims checked under SpecNav *)

\* C28: in category view, whatever was double-clicked, stepped to with
\* Next, ticked or unticked in the browser and closed with Done,
\* current_category_posts holds each post id at most once and holds exactly
\* the posts of the current category that the store shows in categories.
C28_NavigationListConsistent ==
    current_category_name # NULL =>
        /\ \A i, j \in DOMAIN current_category_posts :
               current_category_posts[i] = current_category_posts[j] => i = j
        /\ Range(current_category_posts) =
               {saved_posts[i].reddit_id :
                   i \in LoadCategoryPosts(saved_posts, subreddits,
                                           current_category_name)}

\* C29: a Next click on a list of n >= 1 posts with the index in -1..n-1
\* leaves the index within 0..n-1, and goes back to the first post only
\* from the last one (or from no post at all).
C29_NextCyclesThroughCategory ==
    [][LET n == Len(current_category_posts)
       IN (/\ last_call' = Call("_handle_next_click", FALSE)
           /\ n >= 1
           /\ current_post_index \in -1..(n - 1))
              => /\ current_post_index' \in 0..(n - 1)
                 /\ current_post_index' = 0
                        => current_post_index \in {-1, n - 1}]_vars

----------------------------------------------------------------------------
(* AIService.categorize_post.  A text is a sequence of tokens: a tag, a     *)
(* word, a blank or a newline; a category name is the sequence of its       *)
(* tokens.                                                                  *)

Tokens ==
    {"<category>", "</category>", "<suggested_category>",
     "</suggested_category>", "AI", "Gaming", " ", "\n"}

Whitespace == {" ", "\n"}

\* The name the code falls back to.
UNCATEGORIZED == <<"Uncategorized">>

\* The longest completion, in tokens, of those enumerated in full.
MaxResponse == 3

\* Longer completions: reasoning, then both tags.
SampleResponses ==
    {<<"AI", " ", "Gaming", "\n", "<suggested_category>", "Gaming",
       "</suggested_category>", "\n", "<category>", " ", "AI", " ",
       "</category>">>,
     <<"<category>", "\n", "AI", "</category>", "<category>", "AI", " ",
       "Gaming", "</category>", "</category>">>,
     <<"<category>", " ", "AI", "</category>">>,
     <<"<category>", "<category>", "AI", "</category>">>}

\* What get_completion can return for the categorization prompt.
Responses == UNION {[1..n -> Tokens] : n \in 0..MaxResponse} \cup SampleResponses

\* The categories arguments: name -> description.
CategoryMaps ==
    {[n \in {UNCATEGORIZED, <<"AI">>} |-> NULL],
     [n \in {<<"AI">>, <<"AI", " ", "Gaming">>} |-> "description"]}

\* The post arguments: a RedditPost as the dataclass builds it, and objects
\* that also carry a content attribute, None or text.
PostArgs ==
    {[attrs |-> RedditPostFields, content |-> NULL],
     [attrs |-> RedditPostFields \cup {"content"}, content |-> NULL],
     [attrs |-> RedditPostFields \cup {"content"}, content |-> DOC]}

\* The summary arguments: None, or a summary made earlier.
SummaryArgs == {NULL, "stored summary"}

\* What get_completion can return for the summary prompt ("" for a
\* completion without content).
SummaryCompletions == {"", "summary"}

\* str.strip()
RECURSIVE Strip(_)
Strip(text) ==
    IF text = <<>> THEN text
    ELSE IF Head(text) \in Whitespace THEN Strip(Tail(text))
    ELSE IF text[Len(text)] \in Whitespace
         THEN Strip(SubSeq(text, 1, Len(text) - 1))
    ELSE text

\* re.search(open + "(.*?)" + close, text): <<group(1)>>, or <<>> for no
\* match.  "." matches no newline; the leftmost start that has a match
\* wins, and from it the lazy group ends at the nearest close.
TagSearch(text, open, close) ==
    LET ends(i) == {j \in (i + 1)..Len(text) :
                       /\ text[j] = close
                       /\ \A k \in (i + 1)..(j - 1) : text[k] # "\n"}
        starts == {i \in DOMAIN text : text[i] = open /\ ends(i) # {}}
    IN IF starts = {} THEN <<>>
       ELSE LET i == CHOOSE x \in starts : \A y \in starts : x <= y
                j == CHOOSE x \in ends(i) : \A y \in ends(i) : x <= y
            IN <<SubSeq(text, i + 1, j - 1)>>

\* category in f.read(): a substring of the file's text.
InFile(category, lines) ==
    \/ category = <<>>
    \/ \E l \in DOMAIN lines :
          \E a \in 1..(Len(lines[l]) - Len(category) + 1) :
             SubSeq(lines[l], a, a + Len(category) - 1) = category

\* add_suggestion
AddSuggestion(file, category) ==
    IF file.exists /\ InFile(category, file.lines) THEN file
    ELSE [exists |-> TRUE, lines |-> Append(file.lines, category)]

\* Mutant: the suggested name taken without the check.
VerifiedCategory_Unchecked(suggested_category, cats) == suggested_category

\* category = "Uncategorized", replaced by the suggested name if it is a
\* key of the map.
VerifiedCategory(suggested_category, cats) ==
    IF suggested_category \in DOMAIN cats THEN suggested_category
    ELSE UNCATEGORIZED

\* categorize_post up to its first completion: with no summary given,
\* summarize_post reads post.content.
CategorizePost(p, cats, s) ==
    /\ cpc = "idle"
    /\ category_map' = cats
    /\ IF s # NULL
       THEN /\ summary' = s
            /\ cpc' = "categorizing"
            /\ UNCHANGED <<returned, uncaught>>
       ELSE IF "content" \notin p.attrs
       THEN /\ uncaught' = "AttributeError"
            /\ cpc' = "raised"
            /\ UNCHANGED <<summary, returned>>
       ELSE IF p.content = NULL
       THEN /\ returned' = <<UNCATEGORIZED, NULL>>
            /\ cpc' = "returned"
            /\ UNCHANGED <<summary, uncaught>>
       ELSE /\ cpc' = "summarizing"
            /\ UNCHANGED <<summary, returned, uncaught>>
    /\ UNCHANGED <<response, suggestions, suggest_mode>>
    /\ UNCHANGED notCategorize

\* get_completion of summarize_post returns or raises openai.OpenAIError.
SummaryCompletion(raises, text) ==
    /\ cpc = "summarizing"
    /\ IF raises
       THEN /\ uncaught' = "OpenAIError"
            /\ cpc' = "raised"
            /\ UNCHANGED summary
       ELSE /\ summary' = text
            /\ cpc' = "categorizing"
            /\ UNCHANGED uncaught
    /\ UNCHANGED <<category_map, response, returned, suggestions,
                   suggest_mode>>
    /\ UNCHANGED notCategorize

\* get_completion of categorize_post raises openai.OpenAIError.
CategoryCompletionFails ==
    /\ cpc = "categorizing"
    /\ uncaught' = "OpenAIError"
    /\ cpc' = "raised"
    /\ UNCHANGED <<category_map, summary, response, returned,
                   suggestions, suggest_mode>>
    /\ UNCHANGED notCategorize

\* get_completion of categorize_post returns text: the rest of
\* categorize_post.
CategoryCompletion(text) ==
    LET suggested_match == TagSearch(text, "<suggested_category>",
                                     "</suggested_category>")
        match == TagSearch(text, "<category>", "</category>")
    IN /\ cpc = "categorizing"
       /\ response' = text
       /\ suggestions' =
             IF suggested_match # <<>>
                /\ Strip(suggested_match[1]) \notin DOMAIN category_map
             THEN AddSuggestion(suggestions, Strip(suggested_match[1]))
             ELSE suggestions
       /\ returned' =
             <<IF match # <<>>
               THEN VerifiedCategory(Strip(match[1]), category_map)
               ELSE UNCATEGORIZED,
               summary>>
       /\ cpc' = "returned"
       /\ UNCHANGED <<category_map, summary, uncaught, suggest_mode>>
       /\ UNCHANGED notCategorize

----------------------------------------------------------------------------
(* SpecCategorize *)

\* No call yet; the suggestions file is missing or holds one line, and
\* suggest_mode is as the class has it or was switched on.
InitCategorize ==
    /\ subreddits = <<>>
    /\ saved_posts = <<>>
    /\ categories = <<>>
    /\ subTree = <<>>
    /\ catTree = <<>>
    /\ uncaught = "none"
    /\ last_call = Call("__init__", FALSE)
    /\ IdleListing
    /\ IdleImport
    /\ cpc = "idle"
    /\ category_map = <<>>
    /\ summary = <<>>
    /\ response = <<>>
    /\ returned = <<>>
    /\ suggestions \in {[exists |-> FALSE, lines |-> <<>>],
                        [exists |-> TRUE, lines |-> << <<"AI", " ", "Gaming">> >>]}
    /\ suggest_mode \in BOOLEAN
    /\ IdleBullets
    /\ IdleParse
    /\ IdleBatch
    /\ IdleNav

NextCategorize ==
    \/ \E p \in PostArgs, cats \in CategoryMaps, s \in SummaryArgs :
          CategorizePost(p, cats, s)
    \/ \E text \in SummaryCompletions : SummaryCompletion(FALSE, text)
    \/ SummaryCompletion(TRUE, "")
    \/ CategoryCompletionFails
    \/ \E text \in Responses : CategoryCompletion(text)

SpecCategorize == InitCategorize /\ [][NextCategorize]_vars

----------------------------------------------------------------------------
(* Claims checked under SpecCategorize *)

\* C3: whatever the post, the category map and the completion text, the
\* category name categorize_post returns is a key of the map it was given or
\* "Uncategorized".
C3_CategoryClosure ==
    cpc = "returned" =>
        returned[1] \in (DOMAIN category_map) \cup {UNCATEGORIZED}

\* C3 witness: the completion names a category the map does not have, and
\* the call returned "Uncategorized".
C3_Witness ==
    /\ cpc = "returned"
    /\ response = <<"<category>", "Gaming", "</category>">>
    /\ <<"Gaming">> \notin DOMAIN category_map
    /\ returned[1] = UNCATEGORIZED

\* C22: categorize_post called with no summary for a post without downloaded
\* content returns ("Uncategorized", None) at once, with no completion call;
\* called with a summary, it makes no summarization call and goes straight
\* to the one categorization completion, after which it returns or raises.
C22_ShortCircuit ==
    /\ [][\A p \in PostArgs, cats \in CategoryMaps :
             (p.content = NULL /\ CategorizePost(p, cats, NULL))
                => (/\ cpc' = "returned"
                    /\ returned' = <<UNCATEGORIZED, NULL>>
                    /\ uncaught' = "none")]_vars
    /\ [][\A p \in PostArgs, cats \in CategoryMaps :
             \A s \in SummaryArgs \ {NULL} :
                CategorizePost(p, cats, s)
                   => (cpc' = "categorizing" /\ summary' = s)]_vars
    /\ [][cpc = "categorizing" => cpc' \in {"returned", "raised"}]_vars

\* C23: the completion's proposed category is appended to the suggestions
\* list only when suggest_mode is on and the name is not a key of the map;
\* the list never holds a name twice, every novel name proposed under
\* suggest_mode is in the list afterwards, and the category returned depends
\* on the completion and the map alone, not on suggest_mode.
C23_SuggestSideChannel ==
    [][\A text \in Responses :
          CategoryCompletion(text) =>
             LET proposed == TagSearch(text, "<suggested_category>",
                                       "</suggested_category>")
                 match == TagSearch(text, "<category>", "</category>")
                 listed == suggestions'.lines
             IN /\ suggestions' # suggestions =>
                      /\ suggest_mode
                      /\ proposed # <<>>
                      /\ Strip(proposed[1]) \notin DOMAIN category_map
                      /\ listed = Append(suggestions.lines, Strip(proposed[1]))
                /\ (/\ suggest_mode
                    /\ proposed # <<>>
                    /\ Strip(proposed[1]) \notin DOMAIN category_map)
                      => \E l \in DOMAIN listed : listed[l] = Strip(proposed[1])
                /\ \A l, m \in DOMAIN listed : listed[l] = listed[m] => l = m
                /\ returned'[1] =
                      IF match # <<>>
                         /\ Strip(match[1]) \in DOMAIN category_map
                      THEN Strip(match[1])
                      ELSE UNCATEGORIZED]_vars

----------------------------------------------------------------------------
(* AIService.generate_bullet_points.  A completion is given by the matches  *)
(* re.finditer finds in it: the sequence of the integers of its <id> or     *)
(* <selected> tags.                                                         *)

BATCH_SIZE == 30

\* "len(all_bullet_points) > 15" of generate_bullet_points
SELECT_ABOVE == 15

\* max_points of _select_most_valuable_points
MAX_POINTS == 15

\* The most summaries of a call of the model.
MaxSummaries == 61

SummaryCounts == {0, 1, 16, 30, 31, MaxSummaries}

\* a, a + 1, ..., b
Ids(a, b) == [i \in 1..(b - a + 1) |-> a + i - 1]

\* x, n times
Repeated(x, n) == [i \in 1..n |-> x]

\* The <id> matches of a completion for a batch of len summaries: none, some
\* of the batch, all of it, ids past the batch, one id over and over.
BatchMatches(len) ==
    {Ids(0, m - 1) : m \in {0, 8, 9, len}}
        \cup {<<len, len + 1>>, Repeated(0, 17)}

\* The <selected> matches of a completion for n bullet points: runs of
\* indices that start at 0 or 1 and end anywhere up to past the list, all
\* the indices backwards, one index over and over, 14 valid indices followed
\* by repeats and out-of-range ones, and every second index.
SelectionMatches(n) ==
    {Ids(a, b) : a \in {0, 1}, b \in 0..(n + 1)}
        \cup {Reverse(Ids(0, n - 1)), Repeated(3, 16),
              Ids(0, 13) \o <<13, 13, n, n + 5>>,
              [i \in 1..((n + 1) \div 2) |-> 2 * (i - 1)]}

\* The loop over the matches of _process_bullet_point_batch from match k
\* on: a match with a valid index adds (point_text, post_id).
RECURSIVE BatchPoints(_, _, _, _)
BatchPoints(batch, from, matches, k) ==
    IF k > Len(matches) THEN <<>>
    ELSE (IF 0 <= matches[k] /\ matches[k] < Len(batch)
          THEN <<[point |-> <<from, k>>, post_id |-> batch[matches[k] + 1]]>>
          ELSE <<>>)
         \o BatchPoints(batch, from, matches, k + 1)

\* selected_indices after the loop over the matches
ValidIndices(matches, n) ==
    {matches[k] : k \in {k \in DOMAIN matches :
                            0 <= matches[k] /\ matches[k] < n}}

\* Mutant: too few selections taken as they are.
EnoughIndices_AsIs(selected_indices, n) == selected_indices

\* "If we didn't get enough selections, take the first max_points"
EnoughIndices(selected_indices, n) ==
    IF Cardinality(selected_indices) < MAX_POINTS
    THEN 0..(Min(MAX_POINTS, n) - 1)
    ELSE selected_indices

\* Mutant: too many selections replaced by the first max_points indices.
AtMostIndices_First(selected_indices) ==
    IF Cardinality(selected_indices) > MAX_POINTS
    THEN 0..(MAX_POINTS - 1)
    ELSE selected_indices

\* "If we got too many selections, take only the first max_points":
\* set(sorted(list(selected_indices))[:max_points])
AtMostIndices(selected_indices) ==
    IF Cardinality(selected_indices) > MAX_POINTS
    THEN {i \in selected_indices :
             Cardinality({j \in selected_indices : j < i}) < MAX_POINTS}
    ELSE selected_indices

\* [point for i, point in enumerate(bullet_points) if i in selected_indices]
SelectedPoints(bullet_points, selected_indices) ==
    Pick(bullet_points, {i + 1 : i \in selected_indices}, 1)

\* Mutant: a batch that runs to the end of the list.
Batch_ToEnd(all, start) == SubSeq(all, start + 1, Len(all))

\* batch = summaries[batch_start:batch_end]
Batch(all, start) ==
    SubSeq(all, start + 1, Min(start + BATCH_SIZE, Len(all)))

\* generate_bullet_points up to its first completion.
GenerateBulletPoints(n) ==
    /\ bpc = "idle"
    /\ summaries' = Ids(1, n)
    /\ batch_start' = 0
    /\ all_bullet_points' = <<>>
    /\ extractions' = <<>>
    /\ bpc' = IF n = 0 THEN "collected" ELSE "batch"
    /\ UNCHANGED <<selection, bullets, uncaught>>
    /\ UNCHANGED notBullets

\* One turn of the batch loop: _process_bullet_point_batch with a completion
\* that has these matches.
ProcessBatch ==
    LET batch == Batch(summaries, batch_start)
    IN /\ bpc = "batch"
       /\ \E matches \in BatchMatches(Len(batch)) :
             /\ all_bullet_points' =
                   all_bullet_points
                      \o BatchPoints(batch, batch_start, matches, 1)
             /\ extractions' =
                   Append(extractions, [batch |-> batch, matches |-> matches])
       /\ batch_start' = batch_start + BATCH_SIZE
       /\ bpc' = IF batch_start + BATCH_SIZE < Len(summaries) THEN "batch"
                 ELSE "collected"
       /\ UNCHANGED <<summaries, selection, bullets, uncaught>>
       /\ UNCHANGED notBullets

\* get_completion raises openai.OpenAIError, in a batch or in the selection.
BulletCompletionFails ==
    /\ \/ bpc = "batch"
       \/ bpc = "collected" /\ Len(all_bullet_points) > SELECT_ABOVE
    /\ uncaught' = "OpenAIError"
    /\ bpc' = "raised"
    /\ UNCHANGED <<summaries, batch_start, all_bullet_points, selection,
                   bullets, extractions>>
    /\ UNCHANGED notBullets

\* More than 15 points: _select_most_valuable_points with a completion that
\* has these matches, and the return.
SelectMostValuablePoints ==
    LET n == Len(all_bullet_points)
    IN /\ bpc = "collected"
       /\ n > SELECT_ABOVE
       /\ \E matches \in SelectionMatches(n) :
             /\ selection' = matches
             /\ bullets' =
                   SelectedPoints(all_bullet_points,
                                  AtMostIndices(EnoughIndices(
                                      ValidIndices(matches, n), n)))
       /\ bpc' = "returned"
       /\ UNCHANGED <<summaries, batch_start, all_bullet_points, uncaught,
                      extractions>>
       /\ UNCHANGED notBullets

\* At most 15 points: they are returned as they are, a message in place of
\* an empty list.
ReturnBulletPoints ==
    /\ bpc = "collected"
    /\ Len(all_bullet_points) <= SELECT_ABOVE
    /\ bullets' =
          IF all_bullet_points = <<>>
          THEN <<[point |-> "No significant technical insights found in the recent posts.",
                  post_id |-> ""]>>
          ELSE all_bullet_points
    /\ bpc' = "returned"
    /\ UNCHANGED <<summaries, batch_start, all_bullet_points, selection,
                   uncaught, extractions>>
    /\ UNCHANGED notBullets

----------------------------------------------------------------------------
(* SpecBullets *)

InitBullets ==
    /\ subreddits = <<>>
    /\ saved_posts = <<>>
    /\ categories = <<>>
    /\ subTree = <<>>
    /\ catTree = <<>>
    /\ uncaught = "none"
    /\ last_call = Call("__init__", FALSE)
    /\ IdleListing
    /\ IdleImport
    /\ IdleCategorize
    /\ IdleBullets
    /\ IdleParse
    /\ IdleBatch
    /\ IdleNav

NextBullets ==
    \/ \E n \in SummaryCounts : GenerateBulletPoints(n)
    \/ ProcessBatch
    \/ BulletCompletionFails
    \/ SelectMostValuablePoints
    \/ ReturnBulletPoints

SpecBullets == InitBullets /\ [][NextBullets]_vars

----------------------------------------------------------------------------
(* Claims checked under SpecBullets *)

\* C7: when the batches together gave more than 15 bullet points, the list
\* generate_bullet_points returns has exactly 15 items, whatever the
\* selection completion held.
C7_InsightCap ==
    (bpc = "returned" /\ Len(all_bullet_points) > 15) => Len(bullets) = 15

\* C7 witness: 47 points from two batches; the completion selects the
\* indices 1 to 48, two of them out of range, and the points at 1 to 15 are
\* returned.
C7_Witness ==
    /\ bpc = "returned"
    /\ Len(all_bullet_points) = 47
    /\ selection = Ids(1, 48)
    /\ bullets = SubSeq(all_bullet_points, 2, 16)

\* The distinct valid indices named by the selection completion.
Named == ValidIndices(selection, Len(all_bullet_points))

\* C20 (as claimed): given more than 15 insights, when the selection names
\* fewer or more than 15 distinct valid indices, the first 15 insights of the
\* input are returned in their order, whichever indices were named.
C20_FallbackFirst ==
    (/\ bpc = "returned"
     /\ Len(all_bullet_points) > 15
     /\ Cardinality(Named) # 15)
        => bullets = SubSeq(all_bullet_points, 1, 15)

\* C20 (amended): given more than 15 insights, when the selection names
\* fewer than 15 distinct valid indices the first 15 insights of the input
\* are returned; when it names more than 15, the insights at the 15 smallest
\* named indices are returned; in both cases in their original order.
C20_FallbackSmallest ==
    (bpc = "returned" /\ Len(all_bullet_points) > 15) =>
        /\ Cardinality(Named) < 15 =>
              bullets = SubSeq(all_bullet_points, 1, 15)
        /\ Cardinality(Named) > 15 =>
              LET kept == {i \in Named :
                              Cardinality({j \in Named : j <= i}) <= 15}
              IN bullets = [t \in 1..15 |->
                              all_bullet_points[
                                 1 + CHOOSE i \in kept :
                                        Cardinality({j \in kept : j <= i}) = t]]

\* C20 witness: 47 points; the completion names every second index, 24 in
\* all, and the points at 0, 2, ..., 28 are returned.
C20_Witness ==
    /\ bpc = "returned"
    /\ Len(all_bullet_points) = 47
    /\ selection = [i \in 1..24 |-> 2 * (i - 1)]
    /\ Len(bullets) = 15
    /\ bullets[2] = all_bullet_points[3]
    /\ bullets[15] = all_bullet_points[29]

\* C21: for n summaries, generate_bullet_points makes exactly ceil(n / 30)
\* extraction calls, call b (from 0) receiving the inputs 30b to
\* min(30b + 29, n - 1); a match of call b with a batch-local index N inside
\* the batch gives one insight carrying the post id of input 30b + N, and a
\* match with an index outside the batch gives none.
C21_BatchIndexMapping ==
    bpc \in {"collected", "returned"} =>
        LET n == Len(summaries)
            last(b) == IF 30 * b + 29 < n - 1 THEN 30 * b + 29 ELSE n - 1
            inside(b, k) ==
                /\ 0 <= extractions[b + 1].matches[k]
                /\ extractions[b + 1].matches[k] <= last(b) - 30 * b
            at(b, k) == {i \in DOMAIN all_bullet_points :
                            all_bullet_points[i].point = <<30 * b, k>>}
        IN /\ Len(extractions) = (n + 29) \div 30
           /\ \A b \in 0..(Len(extractions) - 1) :
                 /\ extractions[b + 1].batch =
                       [i \in 1..(last(b) - 30 * b + 1) |->
                           summaries[30 * b + i]]
                 /\ \A k \in DOMAIN extractions[b + 1].matches :
                       IF inside(b, k)
                       THEN /\ Cardinality(at(b, k)) = 1
                            /\ \A i \in at(b, k) :
                                  all_bullet_points[i].post_id =
                                     summaries[30 * b
                                        + extractions[b + 1].matches[k] + 1]
                       ELSE at(b, k) = {}
           /\ \A i \in DOMAIN all_bullet_points :
                 \E b \in 0..(Len(extractions) - 1) :
                    \E k \in DOMAIN extractions[b + 1].matches :
                       all_bullet_points[i].point = <<30 * b, k>>

\* C21 witness: 61 summaries in three calls; the first completion tags only
\* indices past its batch, the second tags 0 to 8 and the third, whose batch
\* holds one summary, tags 1 and 2: the insights are those of inputs 30 to 38.
C21_Witness ==
    /\ bpc = "collected"
    /\ Len(summaries) = 61
    /\ Len(extractions) = 3
    /\ extractions[1].matches = <<30, 31>>
    /\ extractions[2].matches = Ids(0, 8)
    /\ extractions[3].matches = <<1, 2>>
    /\ [i \in DOMAIN all_bullet_points |-> all_bullet_points[i].post_id]
          = [i \in 1..9 |-> summaries[30 + i]]

----------------------------------------------------------------------------
(* RedditService.fetch_post_details and                                     *)
(* LinkImporter.extract_post_info_from_content.  A text is a sequence of    *)
(* tokens: a piece of literal text, or a time as strftime writes it.        *)

\* A piece of literal text.
Tok(s) == [s |-> s, t |-> <<>>]

\* "%Y-%m-%d %H:%M:%S": the date as its day number, then hour, minute and
\* second.
TimeTok(day, hh, mm, ss) == [s |-> "time", t |-> <<day, hh, mm, ss>>]

NEWLINE == Tok("\n")

TimeZones == {"UTC", "Europe/Berlin"}

\* 2024-10-27 01:00:00 UTC: Europe/Berlin goes from UTC+2 back to UTC+1.
BACK_TO_STANDARD == 1729990800

\* Seconds east of UTC of the zone at the instant t.
UtcOffset(zone, t) ==
    IF zone = "UTC" THEN 0
    ELSE IF t < BACK_TO_STANDARD THEN 7200 ELSE 3600

\* datetime.fromtimestamp(t).strftime("%Y-%m-%d %H:%M:%S")
Strftime(zone, t) ==
    LET wall == t + UtcOffset(zone, t)
    IN TimeTok(wall \div 86400, (wall % 86400) \div 3600,
               (wall % 3600) \div 60, wall % 60)

\* datetime.strptime(text, "%Y-%m-%d %H:%M:%S").timestamp(): <<t>>, or <<>>
\* for ValueError.  Of two instants with this wall time the earlier one is
\* taken (fold = 0).
StrptimeTimestamp(zone, tok) ==
    LET wall == tok.t[1] * 86400 + tok.t[2] * 3600 + tok.t[3] * 60 + tok.t[4]
        instants == {wall - o : o \in {o \in {0, 3600, 7200} :
                                          UtcOffset(zone, wall - o) = o}}
    IN IF tok.t[2] > 23 \/ tok.t[3] > 59 \/ tok.t[4] > 59 \/ instants = {}
       THEN <<>>
       ELSE <<CHOOSE t \in instants : \A u \in instants : t <= u>>

\* created_utc values, half an hour apart around the change of offset.
Instants ==
    {BACK_TO_STANDARD - 5400, BACK_TO_STANDARD - 1800, BACK_TO_STANDARD,
     BACK_TO_STANDARD + 1800, BACK_TO_STANDARD + 5400}

\* A time in a title or a text, as its author typed it.
TYPED_TIME == TimeTok(19724, 3, 4, 5)

\* Digits typed in the shape of a time that is none.
TYPED_NO_TIME == TimeTok(19724, 99, 99, 99)

\* Text that quotes the head line of a comment.
QUOTED_HEAD == <<Tok("**u/"), Tok("bob"), Tok("**"), Tok(" on "), Tok("2024")>>

Titles ==
    {<<Tok("Hello")>>,
     <<>>,
     <<Tok("Release"), Tok(" on "), TYPED_TIME>>,
     <<Tok("Release"), Tok(" on "), TYPED_NO_TIME>>}

Selftexts == {<<>>, <<Tok("text")>>, QUOTED_HEAD \o <<Tok(" said so")>>}

\* url of the post: none, its own permalink, or a link.
Urls == {"", "permalink", "https://example.com/a"}

Comment(kind, has_body, body, replies) ==
    [kind |-> kind, author |-> "bob", created_utc |-> BACK_TO_STANDARD - 1800,
     has_body |-> has_body, body |-> body, replies |-> replies]

PLAIN == Comment("t1", TRUE, <<Tok("thanks")>>, <<>>)

\* The comment listings: none, one comment, a comment with a reply, a
\* "more" entry, a removed comment with a reply, a comment that quotes the
\* head line of another, two comments.
CommentTrees ==
    {<<>>,
     <<PLAIN>>,
     <<Comment("t1", TRUE, <<Tok("why")>>, <<PLAIN>>)>>,
     <<PLAIN, Comment("more", FALSE, <<>>, <<>>)>>,
     <<Comment("t1", FALSE, <<>>, <<PLAIN>>)>>,
     <<Comment("t1", TRUE, QUOTED_HEAD \o <<Tok(" is right")>>, <<>>)>>,
     <<PLAIN, PLAIN>>}

PostData ==
    [title : Titles, author : {"alice"}, created_utc : Instants,
     selftext : Selftexts, url : Urls]

\* "  " * depth
Indent(depth) == [i \in 1..depth |-> Tok("  ")]

\* format_comment for each comment of a list from comment k on, at a depth.
RECURSIVE FormatComments(_, _, _, _)
FormatComments(zone, comments, k, depth) ==
    IF k > Len(comments) THEN <<>>
    ELSE LET data == comments[k]
             text ==
                 IF data.kind # "t1" \/ ~data.has_body THEN <<>>
                 ELSE Indent(depth)
                      \o <<Tok("**u/"), Tok(data.author), Tok("**"), Tok(" on "),
                           Strftime(zone, data.created_utc), NEWLINE, NEWLINE>>
                      \o Indent(depth) \o data.body \o <<NEWLINE, NEWLINE>>
                      \o FormatComments(zone, data.replies, 1, depth + 1)
         IN text \o FormatComments(zone, comments, k + 1, depth)

\* The markdown fetch_post_details builds.
Markdown(zone, data, comments) ==
    <<Tok("# ")>> \o data.title \o <<NEWLINE, NEWLINE>>
    \o <<Tok("**Posted by u/"), Tok(data.author), Tok(" on "),
         Strftime(zone, data.created_utc), Tok("**"), NEWLINE, NEWLINE>>
    \o (IF data.selftext # <<>>
        THEN data.selftext \o <<NEWLINE, NEWLINE>> ELSE <<>>)
    \o (IF data.url \notin {"", "permalink"}
        THEN <<Tok("[Link]("), Tok(data.url), Tok(")"), NEWLINE, NEWLINE>>
        ELSE <<>>)
    \o <<Tok("---"), NEWLINE, NEWLINE, Tok("## Comments"), NEWLINE, NEWLINE>>
    \o FormatComments(zone, comments, 1, 0)

\* The comments format_comment writes a head line for.
RECURSIVE RenderedComments(_, _)
RenderedComments(comments, k) ==
    IF k > Len(comments) THEN 0
    ELSE (IF comments[k].kind # "t1" \/ ~comments[k].has_body THEN 0
          ELSE 1 + RenderedComments(comments[k].replies, 1))
         + RenderedComments(comments, k + 1)

\* re.search(r"\[Link\]\((.*?)\)", content): <<group(1)>> or <<>>
LinkSearch(content) ==
    LET ends(i) == {j \in (i + 1)..Len(content) :
                       /\ content[j] = Tok(")")
                       /\ \A k \in (i + 1)..(j - 1) : content[k] # NEWLINE}
        starts == {i \in DOMAIN content :
                      content[i] = Tok("[Link](") /\ ends(i) # {}}
    IN IF starts = {} THEN <<>>
       ELSE LET i == CHOOSE x \in starts : \A y \in starts : x <= y
                j == CHOOSE x \in ends(i) : \A y \in ends(i) : x <= y
            IN <<SubSeq(content, i + 1, j - 1)>>

\* re.search(r"on (\d{4}-\d{2}-\d{2} \d{2}:\d{2}:\d{2})", content):
\* <<group(1)>> or <<>>
TimeSearch(content) ==
    LET hits == {i \in 1..(Len(content) - 1) :
                    content[i] = Tok(" on ") /\ content[i + 1].s = "time"}
    IN IF hits = {} THEN <<>>
       ELSE <<content[(CHOOSE x \in hits : \A y \in hits : x <= y) + 1]>>

\* \d{4} at the start of the token
StartsWithYear(tok) == tok.s = "time" \/ tok = Tok("2024")

\* len(re.findall(r"\*\*u/.*?\*\* on \d{4}", content)), scanning from
\* token i on.
RECURSIVE CountHeads(_, _)
CountHeads(content, i) ==
    IF i > Len(content) THEN 0
    ELSE LET ends == {k \in (i + 1)..(Len(content) - 2) :
                         /\ content[k] = Tok("**")
                         /\ content[k + 1] = Tok(" on ")
                         /\ StartsWithYear(content[k + 2])
                         /\ \A m \in (i + 1)..(k - 1) : content[m] # NEWLINE}
         IN IF content[i] = Tok("**u/") /\ ends # {}
            THEN 1 + CountHeads(content,
                                (CHOOSE x \in ends : \A y \in ends : x <= y) + 3)
            ELSE CountHeads(content, i + 1)

\* extract_post_info_from_content: <<PostInfo>>, or <<>> for None
ExtractPostInfo(zone, content) ==
    LET newlines == {i \in 2..Len(content) : content[i] = NEWLINE}
        title == SubSeq(content, 2,
                        (CHOOSE x \in newlines : \A y \in newlines : x <= y) - 1)
        url_match == LinkSearch(content)
        time_match == TimeSearch(content)
        timestamp == StrptimeTimestamp(zone, time_match[1])
    IN IF content = <<>> \/ content[1] # Tok("# ") \/ newlines = {} THEN <<>>
       ELSE IF time_match = <<>> THEN <<>>
       ELSE IF timestamp = <<>> THEN <<>>  \* ValueError, "except Exception"
       ELSE <<[title |-> title,
               url |-> IF url_match = <<>> THEN <<>> ELSE url_match[1],
               created_utc |-> timestamp[1],
               num_comments |-> CountHeads(content, 1)]>>

\* What the try block of fetch_post_details comes to: it runs through; or
\* requests raises a RequestException (no connection, a timeout, an HTTP
\* error status from raise_for_status, a body that is no JSON); or the JSON
\* is a list without the post or comment fields (IndexError, KeyError), or
\* no list at all (TypeError).
DetailOutcomes == {"ok", "RequestException", "IndexError", "KeyError",
                   "TypeError"}

\* except requests.RequestException
Caught(outcome) == outcome = "RequestException"

\* fetch_post_details: the markdown, the sentinel when the exception is
\* caught, or the exception.
FetchPostDetails(data, comments, outcome) ==
    /\ dpc = "idle"
    /\ post_data' = <<data>>
    /\ comments_data' = comments
    /\ IF outcome = "ok"
       THEN /\ markdown' = Markdown(tz, data, comments)
            /\ dpc' = "fetched"
            /\ uncaught' = "none"
       ELSE IF Caught(outcome)
       THEN /\ markdown' = <<Tok(ERR)>>
            /\ dpc' = "failed"
            /\ uncaught' = "none"
       ELSE /\ markdown' = <<>>
            /\ dpc' = "raised"
            /\ uncaught' = outcome
    /\ UNCHANGED <<tz, post_info>>
    /\ UNCHANGED notParse

\* extract_post_info_from_content on the markdown fetched.
ExtractPostInfoFromContent ==
    /\ dpc = "fetched"
    /\ post_info' = ExtractPostInfo(tz, markdown)
    /\ dpc' = "parsed"
    /\ UNCHANGED <<tz, post_data, comments_data, markdown, uncaught>>
    /\ UNCHANGED notParse

----------------------------------------------------------------------------
(* SpecParse *)

InitParse ==
    /\ subreddits = <<>>
    /\ saved_posts = <<>>
    /\ categories = <<>>
    /\ subTree = <<>>
    /\ catTree = <<>>
    /\ uncaught = "none"
    /\ last_call = Call("__init__", FALSE)
    /\ IdleListing
    /\ IdleImport
    /\ IdleCategorize
    /\ IdleBullets
    /\ IdleBatch
    /\ IdleNav
    /\ tz \in TimeZones
    /\ dpc = "idle"
    /\ post_data = <<>>
    /\ comments_data = <<>>
    /\ markdown = <<>>
    /\ post_info = <<>>

NextParse ==
    \/ \E data \in PostData, comments \in CommentTrees,
          outcome \in DetailOutcomes :
          FetchPostDetails(data, comments, outcome)
    \/ ExtractPostInfoFromContent

SpecParse == InitParse /\ [][NextParse]_vars

----------------------------------------------------------------------------
(* Claims checked under SpecParse *)

\* C8 (as claimed): extract_post_info_from_content, applied to the markdown
\* fetch_post_details built for a post and its comments, returns the post's
\* title, its creation time, and as comment count the number of comments
\* written into the markdown.
C8_RoundTrip ==
    dpc = "parsed" =>
        /\ post_info # <<>>
        /\ post_info[1].title = post_data[1].title
        /\ post_info[1].created_utc = post_data[1].created_utc
        /\ post_info[1].num_comments = RenderedComments(comments_data, 1)

\* C14 (as claimed): the detail fetch never raises.  Whatever fails in the
\* fetch or in decoding its response, fetch_post_details raises nothing and
\* returns a string that begins with "Error fetching post details".
C14_DetailFetchNeverRaises ==
    dpc \in {"failed", "raised"} =>
        /\ uncaught = "none"
        /\ markdown # <<>>
        /\ markdown[1] = Tok(ERR)

====
